---------------------------- MODULE Spec2Model ----------------------------
(***************************************************************************)
(* Model of the human-intervention coordinator of LangGraphServer:        *)
(*   backend/app/utils/human_pause_utils.py  (HumanPauseManager)          *)
(*   backend/app/routers/human_pause.py      (the HTTP routes)            *)
(*                                                                         *)
(* Execution model.  The coordinator lives in one process and uses the    *)
(* event loop returned by asyncio.get_event_loop().  request_intervention *)
(* is a synchronous function: it registers the request and then drives    *)
(* the loop itself with loop.run_until_complete(...).  While it waits,    *)
(* everything else (the resume route, timer callbacks, other executions)  *)
(* runs as callbacks of that loop, each callback atomically.              *)
(* run_until_complete is not re-entrant: called while the loop is already *)
(* running it raises RuntimeError.  Timer callbacks (the wait_for timeout *)
(* and the cleanup scheduled with call_later) only run while the loop is  *)
(* being driven.  asyncio.wait_for is modelled by its steps: the timeout  *)
(* handle releases the waiter, the waiting task then either sees the      *)
(* future done and returns, or cancels it and raises TimeoutError on its  *)
(* next step (the wait_for of Python 3.8 to 3.11).  Time is kept as the   *)
(* milliseconds each timer has left and the milliseconds elapsed since a  *)
(* request was resolved; Tick lets time pass for all of them.             *)
(***************************************************************************)
EXTENDS Integers, Sequences, FiniteSets, TLC

\* ---------------------------------------------------------------- bounds
\* Number of intervention requests created in one run of the model.
MaxRequests == 2
\* Time passes in steps of TickStep ms.
TickStep == 300000
\* The timeout_ms value given to requests that have a timeout.
TimeoutMs == 100000

\* ------------------------------------------------------- program constants
\* loop.call_later(300, cleanup): the grace period, in seconds.
CLEANUP_DELAY == 300
\* timeout_ms: Optional[int] = None  (None is written -1 here)
NoTimeout == -1
\* a timer that is not scheduled, an elapsed time that is not counted
NoTimer == NoTimeout

\* The names a response map may contain and required_fields may name.
Fields == {"approved"}

\* ------------------------------------------------------------------ values
\* Python values are records of one shape, so that they can be compared.
None == [kind |-> "None", of |-> 0, keys |-> {}]
\* the pre-pause state dict handed to request number i
StateOf(i) == [kind |-> "state", of |-> i, keys |-> {}]
\* a response dict posted by the human, with the given keys
Data(ks) == [kind |-> "data", of |-> 0, keys |-> ks]
Responses == {Data(ks) : ks \in SUBSET Fields}

VARIABLES
    request,            \* the HumanInterventionRequest objects, by id (1..Len)
    paused_executions,  \* the keys of _paused_executions
    waiter,             \* per request_intervention call: where it stands
    running,            \* id of the call driving the event loop, 0 if idle
    last,               \* outcome of the coordinator API call just made
    graph_schema,       \* the body of the POST /generate_code being served
    http_response,      \* what the route answered, NoResponse before it does
    loop_state,         \* the run of an emitted loop node: its state entries
    node_run,           \* the run of another emitted node function
    memory,             \* STATE_MEMORY and LongTermMemory's storage file
    executor            \* a ToolExecutor and the execute calls made on it

coordinator_vars == <<request, paused_executions, waiter, running, last>>
compiler_vars == <<graph_schema, http_response, loop_state>>
runtime_vars == <<node_run, memory, executor>>
vars == <<coordinator_vars, compiler_vars, runtime_vars>>

Ids == 1..MaxRequests
Created == 1..Len(request)

NoCall == [op |-> "none", id |-> 0, result |-> "none", status |-> 0]

\* HumanInterventionRequest.__init__
HumanInterventionRequest(i, required_fields, allow_edits, timeout_ms) ==
    [ state           |-> StateOf(i),
      required_fields |-> required_fields,
      allow_edits     |-> allow_edits,
      timeout_ms      |-> timeout_ms,
      response        |-> None,
      completed       |-> FALSE,
      timed_out       |-> FALSE,
      future          |-> "PENDING" ]

\* The position of a request_intervention call.
\*   pc: "waiting"    inside run_until_complete, nothing has happened yet
\*       "released"   the wait_for timeout handle has fired
\*       "cancelling" wait_for has cancelled request.future
\*       "returned"   request_intervention returned ret
\*       "raised"     request_intervention raised (RuntimeError)
\*   deadline: ms until the wait_for timeout handle is due (NoTimer if none)
\*   cleanup_at: ms until the cleanup callback is due (NoTimer if not scheduled)
\*   resolved_for: ms since completed or timed_out was first set, counted up
\*       to the grace period (NoTimer while neither is set)
\*   resumed: the arguments of the resume_execution call that returned True
NoResume == [skip |-> FALSE, data |-> None, ok |-> FALSE]

\* No request body, no answer, no loop node running.
NoSchema == [present |-> {}, nodes |-> << >>, edges |-> << >>]
NoResponse == [status_code |-> 0, raised |-> "none", code |-> None]
NoLoop == [mode |-> "none"]

\* No node function running, nothing written to memory, no executor.
NoRun == [node |-> "none"]
NoMemory ==
    [writes |-> 0, now |-> 0, STATE_MEMORY |-> << >>, storage |-> << >>,
     written |-> [tier |-> "none"]]
NoExecutor == [error_handling |-> "none"]

Init ==
    /\ request = << >>
    /\ paused_executions = {}
    /\ waiter = << >>
    /\ running = 0
    /\ last = NoCall
    /\ graph_schema = NoSchema
    /\ http_response = NoResponse
    /\ loop_state = NoLoop
    /\ node_run = NoRun
    /\ memory = NoMemory
    /\ executor = NoExecutor

\* timeout_sec = timeout_ms / 1000.0: the delay of the wait_for handle, in ms
TimeoutDelay(timeout_ms) == timeout_ms

\* loop.call_later(300, cleanup): the delay of the cleanup callback, in ms
CleanupDelay == CLEANUP_DELAY * 1000

\* return request.response if request.response is not None else state
ReturnValue(r) == IF r.response # None THEN r.response ELSE r.state

\* request_intervention up to the point where it blocks or raises.
request_intervention(required_fields, allow_edits, timeout_ms) ==
    /\ Len(request) < MaxRequests
    /\ LET i == Len(request) + 1
           r == HumanInterventionRequest(i, required_fields, allow_edits, timeout_ms)
       IN  /\ request' = Append(request, r)
           /\ paused_executions' = paused_executions \cup {i}
           /\ IF running = 0
              THEN \* the loop is idle: this call drives it and waits
                   /\ running' = i
                   /\ waiter' = Append(waiter,
                        [ pc |-> "waiting", ret |-> None,
                          deadline |-> IF timeout_ms # NoTimeout
                                       THEN TimeoutDelay(timeout_ms)
                                       ELSE NoTimer,
                          cleanup_at |-> NoTimer, resolved_for |-> NoTimer,
                          resumed |-> NoResume ])
              ELSE \* the loop is already running: run_until_complete raises
                   \* RuntimeError; the finally block schedules the cleanup
                   /\ running' = running
                   /\ waiter' = Append(waiter,
                        [ pc |-> "raised", ret |-> None, deadline |-> NoTimer,
                          cleanup_at |-> CleanupDelay, resolved_for |-> NoTimer,
                          resumed |-> NoResume ])
    /\ last' = NoCall
    /\ UNCHANGED <<compiler_vars, runtime_vars>>

\* (mutation of IsPending: the check forgets request.completed)
IsPending_IgnoresCompleted(r) == ~r.timed_out

\* if request.completed or request.timed_out: return False
IsPending(r) == ~(r.completed \/ r.timed_out)

\* (mutation of MissingRequired: validation only when edits are allowed)
MissingRequired_OnlyWhenEditable(r, response) ==
    /\ r.allow_edits
    /\ r.required_fields # {}
    /\ \E field \in r.required_fields : field \notin response.keys

\* for field in request.required_fields: if field not in response: return False
MissingRequired(r, response) ==
    /\ r.required_fields # {}
    /\ \E field \in r.required_fields : field \notin response.keys

\* (mutation of ChosenResponse: allow_edits is not consulted)
ChosenResponse_IgnoresAllowEdits(r, response, skip) ==
    IF skip THEN r.state ELSE response

\* the value resume_execution stores in request.response
ChosenResponse(r, response, skip) ==
    IF skip THEN r.state
    ELSE IF r.allow_edits THEN response
    ELSE r.state

\* (mutation of set_result: the future is never resolved)
set_result_Forgotten(future) == future

\* request.future.set_result(True), on a pending future
set_result(future) == "FINISHED"

\* (mutation of MarkTimedOut: the flag is never written)
MarkTimedOut_Forgotten(r) == r

\* request.timed_out = True
MarkTimedOut(r) == [r EXCEPT !.timed_out = TRUE]

\* What resume_execution(request_id, response, skip) answers in this state:
\* "True", "False", or the exception that leaves it.  Future.set_result
\* raises InvalidStateError on a future that is not pending any more.
ResumeResult(request_id, response, skip) ==
    IF request_id \notin paused_executions THEN "False"
    ELSE LET r == request[request_id]
         IN  IF ~IsPending(r) THEN "False"
             ELSE IF ~skip /\ MissingRequired(r, response) THEN "False"
             ELSE IF r.future = "PENDING" THEN "True"
             ELSE "InvalidStateError"

\* resume_intervention: success -> 200, False -> HTTPException(400); an
\* exception leaving resume_execution is an unhandled error, 500.
ResumeStatus(result) ==
    CASE result = "True"  -> 200
      [] result = "False" -> 400
      [] OTHER            -> 500

\* POST /{request_id}/resume: resume_intervention calling resume_execution.
resume_execution(request_id, response, skip) ==
    LET result == ResumeResult(request_id, response, skip)
    IN  /\ last' = [op |-> "resume", id |-> request_id, result |-> result,
                    status |-> ResumeStatus(result)]
        /\ IF result = "False"
           THEN UNCHANGED <<request, waiter>>
           ELSE LET r == request[request_id]
                IN  /\ request' = [request EXCEPT ![request_id] =
                          [r EXCEPT !.response = ChosenResponse(r, response, skip),
                                    !.completed = TRUE,
                                    !.future = IF result = "True"
                                               THEN set_result(r.future)
                                               ELSE r.future]]
                    /\ waiter' = [waiter EXCEPT
                          ![request_id].resolved_for = 0,
                          ![request_id].resumed =
                              IF result = "True"
                              THEN [skip |-> skip, data |-> response, ok |-> TRUE]
                              ELSE @]
        /\ UNCHANGED <<paused_executions, running>>
        /\ UNCHANGED <<compiler_vars, runtime_vars>>

\* The wait_for timeout handle fires (_release_waiter).
TimeoutHandle(i) ==
    /\ running = i
    /\ waiter[i].pc = "waiting"
    /\ waiter[i].deadline # NoTimer
    /\ waiter[i].deadline = 0
    /\ request[i].future = "PENDING"
    /\ waiter' = [waiter EXCEPT ![i].pc = "released"]
    /\ last' = NoCall
    /\ UNCHANGED <<compiler_vars, runtime_vars>>
    /\ UNCHANGED <<request, paused_executions, running>>

\* The waiting task runs after the timeout released it and the future is
\* still pending: wait_for cancels the future (_cancel_and_wait).
WaitForCancel(i) ==
    /\ running = i
    /\ waiter[i].pc = "released"
    /\ request[i].future = "PENDING"
    /\ request' = [request EXCEPT ![i].future = "CANCELLED"]
    /\ waiter' = [waiter EXCEPT ![i].pc = "cancelling"]
    /\ last' = NoCall
    /\ UNCHANGED <<compiler_vars, runtime_vars>>
    /\ UNCHANGED <<paused_executions, running>>

\* The future is done: run_until_complete returns, request_intervention
\* returns request.response (or state), and the finally block schedules cleanup.
WaitReturn(i) ==
    /\ running = i
    /\ waiter[i].pc \in {"waiting", "released"}
    /\ request[i].future = "FINISHED"
    /\ waiter' = [waiter EXCEPT ![i].pc = "returned",
                                ![i].ret = ReturnValue(request[i]),
                                ![i].cleanup_at = CleanupDelay]
    /\ running' = 0
    /\ last' = NoCall
    /\ UNCHANGED <<compiler_vars, runtime_vars>>
    /\ UNCHANGED <<request, paused_executions>>

\* (mutation of TimeoutReturn: the timeout marks every registered request)
TimeoutReturn_MarksAll(i) ==
    /\ running = i
    /\ waiter[i].pc = "cancelling"
    /\ request' = [j \in DOMAIN request |-> MarkTimedOut(request[j])]
    /\ waiter' = [waiter EXCEPT ![i].pc = "returned",
                                ![i].ret = request[i].state,
                                ![i].cleanup_at = CleanupDelay,
                                ![i].resolved_for =
                                    IF @ = NoTimer THEN 0 ELSE @]
    /\ running' = 0
    /\ last' = NoCall
    /\ UNCHANGED <<compiler_vars, runtime_vars>>
    /\ UNCHANGED paused_executions

\* wait_for raises TimeoutError: except asyncio.TimeoutError marks the
\* request timed out and returns state; the finally block schedules cleanup.
TimeoutReturn(i) ==
    /\ running = i
    /\ waiter[i].pc = "cancelling"
    /\ request' = [request EXCEPT ![i] = MarkTimedOut(@)]
    /\ waiter' = [waiter EXCEPT ![i].pc = "returned",
                                ![i].ret = request[i].state,
                                ![i].cleanup_at = CleanupDelay,
                                ![i].resolved_for =
                                    IF @ = NoTimer THEN 0 ELSE @]
    /\ running' = 0
    /\ last' = NoCall
    /\ UNCHANGED <<compiler_vars, runtime_vars>>
    /\ UNCHANGED paused_executions

\* The cleanup callback of request i, run by the loop when it is due.
cleanup(i) ==
    /\ running # 0
    /\ waiter[i].cleanup_at # NoTimer
    /\ waiter[i].cleanup_at = 0
    /\ paused_executions' = paused_executions \ {i}
    /\ waiter' = [waiter EXCEPT ![i].cleanup_at = NoTimer]
    /\ last' = NoCall
    /\ UNCHANGED <<compiler_vars, runtime_vars>>
    /\ UNCHANGED <<request, running>>

\* to_dict
to_dict(i) ==
    [ id |-> i, state |-> request[i].state,
      required_fields |-> request[i].required_fields,
      allow_edits |-> request[i].allow_edits,
      completed |-> request[i].completed,
      timed_out |-> request[i].timed_out ]

\* get_request: the ids for which it returns a dict (None for the others)
get_request_found(request_id) == request_id \in paused_executions

\* get_pending_requests without the timed_out test.
get_pending_requests_IgnoresTimedOut ==
    {i \in paused_executions : ~request[i].completed}

\* get_pending_requests: the ids of the dicts it returns
get_pending_requests ==
    {i \in paused_executions : ~request[i].completed /\ ~request[i].timed_out}

\* Time passing for one timer / one elapsed-time counter.
TimerAfter(ms) ==
    IF ms = NoTimer THEN NoTimer ELSE IF ms > TickStep THEN ms - TickStep ELSE 0

ElapsedAfter(ms) ==
    IF ms = NoTimer THEN NoTimer
    ELSE IF ms + TickStep >= CleanupDelay THEN CleanupDelay ELSE ms + TickStep

\* TickStep ms pass.
Tick ==
    /\ waiter' = [i \in DOMAIN waiter |->
                    [waiter[i] EXCEPT !.deadline = TimerAfter(@),
                                      !.cleanup_at = TimerAfter(@),
                                      !.resolved_for = ElapsedAfter(@)]]
    /\ waiter' # waiter
    /\ last' = NoCall
    /\ UNCHANGED <<compiler_vars, runtime_vars>>
    /\ UNCHANGED <<request, paused_executions, running>>

Next ==
    \/ \E rf \in SUBSET Fields, ae \in BOOLEAN, t \in {NoTimeout, TimeoutMs} :
          request_intervention(rf, ae, t)
    \/ \E id \in Ids, response \in Responses, skip \in BOOLEAN :
          resume_execution(id, response, skip)
    \/ \E i \in Created : TimeoutHandle(i)
    \/ \E i \in Created : WaitForCancel(i)
    \/ \E i \in Created : WaitReturn(i)
    \/ \E i \in Created : TimeoutReturn(i)
    \/ \E i \in Created : cleanup(i)
    \/ Tick

Spec == Init /\ [][Next]_vars

\* The loop runs its ready callbacks and the blocked call is scheduled: the
\* steps of a waiting request_intervention call are taken when they can be,
\* and time passes.
FairSpec ==
    /\ Spec
    /\ \A i \in Ids : /\ WF_vars(i \in Created /\ TimeoutHandle(i))
                      /\ WF_vars(i \in Created /\ WaitForCancel(i))
                      /\ WF_vars(i \in Created /\ WaitReturn(i))
                      /\ WF_vars(i \in Created /\ TimeoutReturn(i))
    /\ WF_vars(Tick)

\* ------------------------------------------------------------ vocabulary
Terminal(i) == request[i].completed \/ request[i].timed_out
Blocked(i) == waiter[i].pc \in {"waiting", "released", "cancelling"}
Returned(i) == waiter[i].pc = "returned"
ResumeStepOn(i) == last'.op = "resume" /\ last'.id = i
SomeRequiredFieldAbsent(i, response) ==
    \E f \in request[i].required_fields : f \notin response.keys

\* ------------------------------------------------------------------ C1
\* C1: COMPLETED and TIMED_OUT are terminal.  Once completed or timed_out is
\* set on a request, every resume_execution call on it returns False and
\* leaves the request (completed, timed_out, response) as it was.
C1_TerminalResumeFails ==
    [][\A i \in Created :
          (Terminal(i) /\ ResumeStepOn(i))
             => /\ last'.result = "False"
                /\ request'[i].completed = request[i].completed
                /\ request'[i].timed_out = request[i].timed_out
                /\ request'[i].response = request[i].response]_vars

\* a resume has just been refused on a request that is COMPLETED
C1_Witness ==
    \E i \in Created :
        /\ last.op = "resume" /\ last.id = i /\ last.result = "False"
        /\ request[i].completed /\ ~request[i].timed_out
        /\ i \in paused_executions

\* ------------------------------------------------------------------ C2
\* C2: resume_execution(id, response, skip=False) on a PENDING request with a
\* required field absent from response returns False and changes nothing:
\* the request stays PENDING with no response and its waiter stays blocked.
C2_MissingFieldNoTransition ==
    [][\A i \in Created : \A response \in Responses :
          ( /\ i \in paused_executions
            /\ ~request[i].completed /\ ~request[i].timed_out
            /\ SomeRequiredFieldAbsent(i, response)
            /\ resume_execution(i, response, FALSE) )
             => /\ last'.result = "False"
                /\ request' = request
                /\ waiter' = waiter
                /\ request'[i].response = None
                /\ paused_executions' = paused_executions]_vars

\* a resume was just refused on a request that is still PENDING and blocked
C2_Witness ==
    \E i \in Created :
        /\ last.op = "resume" /\ last.id = i /\ last.result = "False"
        /\ i \in paused_executions
        /\ ~request[i].completed /\ ~request[i].timed_out
        /\ request[i].required_fields # {}
        /\ request[i].response = None
        /\ waiter[i].pc = "waiting"

\* ------------------------------------------------------------------ C3
\* C3: after a resume_execution that returned True, the blocked
\* request_intervention call returns the original state if skip was true or
\* allow_edits is false, and the supplied response data otherwise.
C3_ReturnedValue ==
    \A i \in Created :
        (Returned(i) /\ waiter[i].resumed.ok)
           => waiter[i].ret =
                 IF waiter[i].resumed.skip \/ ~request[i].allow_edits
                 THEN StateOf(i)
                 ELSE waiter[i].resumed.data

\* one call returned the human's data; another returned the original state
\* after a skip although a required field was missing from the data
C3_Witness ==
    \E i, j \in Created :
        /\ Returned(i) /\ waiter[i].resumed.ok
        /\ request[i].allow_edits /\ ~waiter[i].resumed.skip
        /\ waiter[i].ret = Data({"approved"})
        /\ Returned(j) /\ waiter[j].resumed.ok /\ waiter[j].resumed.skip
        /\ request[j].allow_edits /\ request[j].required_fields # {}
        /\ waiter[j].resumed.data = Data({})
        /\ waiter[j].ret = StateOf(j)

\* ------------------------------------------------------------------ C4
\* C4: a request created with timeout_ms set, whose blocked call returned
\* without any resume_execution having returned True, is TIMED_OUT
\* (timed_out = true, completed = false) and the call returned the original
\* pre-pause state.
C4_TimeoutOutcome ==
    \A i \in Created :
        ( /\ request[i].timeout_ms # NoTimeout
          /\ Returned(i)
          /\ ~waiter[i].resumed.ok )
           => /\ request[i].timed_out
              /\ ~request[i].completed
              /\ waiter[i].ret = StateOf(i)

\* ------------------------------------------------------------------ C5
\* C5: request_intervention registers the request before it waits, and it
\* returns a value only when the request is COMPLETED or TIMED_OUT: a blocked
\* call's request is in the registry, and a returned call's request is not
\* PENDING.
C5_BlocksWhilePending ==
    \A i \in Created :
        /\ Blocked(i) => i \in paused_executions
        /\ Returned(i) => (request[i].completed \/ request[i].timed_out)

\* a call is blocked on a registered PENDING request; an earlier one returned
C5_Witness ==
    \E i, j \in Created :
        /\ Blocked(i) /\ i \in get_pending_requests
        /\ Returned(j) /\ request[j].timed_out

\* ------------------------------------------------------------------ C6
\* C6: a resume_execution call that returned True has made the request
\* COMPLETED, and the call blocked on that request eventually returns.
C6_ResumeUnblocks ==
    \A i \in Ids :
        /\ [](i \in Created /\ waiter[i].resumed.ok => request[i].completed)
        /\ (i \in Created /\ waiter[i].resumed.ok /\ Blocked(i))
              ~> (i \in Created /\ Returned(i))

\* a resume has just returned True while the call is still blocked
C6_Witness ==
    \E i \in Created :
        /\ last.op = "resume" /\ last.id = i /\ last.result = "True"
        /\ Blocked(i) /\ request[i].completed

\* ------------------------------------------------------------------ C7
\* C7: however a resume and the expiry of the timeout interleave, exactly one
\* resolution takes effect: no request is both completed and timed out, and a
\* successfully resumed request's call returns the value chosen by that
\* resume, never as a timeout.
C7_ExactlyOneResolution ==
    \A i \in Created :
        /\ ~(request[i].completed /\ request[i].timed_out)
        /\ (Returned(i) /\ waiter[i].resumed.ok)
              => /\ waiter[i].ret = request[i].response
                 /\ ~request[i].timed_out

\* ------------------------------------------------------------------ C8
\* C8: a pending request does not keep another execution from pausing: a
\* request_intervention call made while another request is PENDING registers
\* its request and waits on it like any other call; it never fails because
\* the first call is still waiting.
C8_SecondRequestWaits ==
    \A i \in Created : waiter[i].pc # "raised"

\* ------------------------------------------------------------------ C9
\* C9: coordinator errors are values, never exceptions: every
\* resume_execution call returns True or False, no exception leaves it, and a
\* failed resume reaches the client of POST /{id}/resume as HTTP 400.
C9_ErrorsAreValues ==
    last.op = "resume"
       => /\ last.result \in {"True", "False"}
          /\ (last.result = "False" => last.status = 400)
          /\ (last.result = "True" => last.status = 200)

\* ----------------------------------------------------------------- C10
\* C10: a COMPLETED or TIMED_OUT request stays retrievable through
\* get_request for the whole grace period after its resolution.
C10_RetrievableDuringGrace ==
    \A i \in Created :
        ( /\ request[i].completed \/ request[i].timed_out
          /\ waiter[i].resolved_for < CleanupDelay )
           => get_request_found(i)

\* C11: in every reachable state get_pending_requests lists exactly the
\* registered requests that are neither completed nor timed out: no terminal
\* request is listed, no registered pending request is omitted, and nothing
\* that is not registered is listed.
C11_PendingListIsExact ==
    /\ get_pending_requests \subseteq paused_executions
    /\ \A i \in get_pending_requests : ~Terminal(i)
    /\ \A i \in paused_executions :
           (request[i].completed = FALSE /\ request[i].timed_out = FALSE)
               => i \in get_pending_requests

\* A registered terminal request is left out while a pending one is listed.
C11_Witness ==
    \E i, j \in paused_executions :
        /\ request[i].timed_out
        /\ i \notin get_pending_requests
        /\ ~Terminal(j)
        /\ j \in get_pending_requests

\* =========================================================================
\* The graph compiler: backend/app/routers/code_generator.py
\*   POST /generate_code (generate_python_code) renders LANGGRAPH_TEMPLATE
\*   over the posted GraphSchema and answers with the emitted program.
\* Strings that the template edits or tests are kept by their parts: a node
\* id is the sequence of its characters, a handle the sequence of its
\* dot-separated words.  The emitted program is kept by what the template
\* writes for it: the top-level names, the add_node calls, one wiring per
\* edge and the set_entry_point calls, each in the order of emission.
\* =========================================================================

\* ---------------------------------------------------------------- bounds
\* Nodes and edges of a posted schema.
MaxNodes == 2
MaxEdges == 2
\* Passes through an emitted loop node in one execution.
MaxPasses == 12

\* ------------------------------------------------------- strings, schemas
Digits == {"0", "1", "2", "3", "4", "5", "6", "7", "8", "9"}

\* Python: a name the emitted program can define with def / assign.
IsIdentifier(name) ==
    /\ Len(name) > 0
    /\ name[1] \notin Digits
    /\ \A k \in 1..Len(name) : name[k] # "-"

\* Jinja2 filter replace(old, new) on a string of characters.
replace(s, old, new) == [k \in 1..Len(s) |-> IF s[k] = old THEN new ELSE s[k]]

\* {{ node.id|replace('-', '_') }}
sanitize(id) == replace(id, "-", "_")

SeqUpTo(S, n) == UNION {[1..k -> S] : k \in 0..n}

NodeIds == {<<"a", "-", "1">>, <<"a", "_", "1">>, <<"b">>, <<"1", "b">>}
NodeTypes == {"startNode", "endNode", "toolNode", "loopNode"}
Node(id, type) == [id |-> id, type |-> type]

NoHandle == << >>
SourceHandles ==
    { NoHandle, <<"decision", "success">>, <<"loop", "continue">>,
      <<"loop", "exit">>, <<"should_retry">>, <<"retry", "continue">>,
      <<"fork", "1">>, <<"loop", "body">> }
TargetHandles == { NoHandle, <<"join", "1">> }
EdgeSources == {<<"a", "-", "1">>, <<"c">>}
EdgeTargets == {<<"b">>, <<"a", "_", "1">>}
Edge(source, target, sourceHandle, targetHandle) ==
    [source |-> source, target |-> target,
     sourceHandle |-> sourceHandle, targetHandle |-> targetHandle]
Edges ==
    {Edge(s, t, sh, th) : s \in EdgeSources, t \in EdgeTargets,
                          sh \in SourceHandles, th \in TargetHandles}

AllFields == {"nodes", "edges", "graphName"}
GraphSchema(nodes, edges) == [present |-> AllFields, nodes |-> nodes, edges |-> edges]

\* tests/test_code_generator.py: the graph of the endpoint test and the body
\* of the invalid-data test.
VALID_GRAPH_DATA ==
    GraphSchema(
        << Node(<<"l", "l", "m", "N", "o", "d", "e", "-", "1">>, "llmNode"),
           Node(<<"t", "o", "o", "l", "N", "o", "d", "e", "-", "1">>, "toolNode"),
           Node(<<"e", "n", "d", "N", "o", "d", "e", "-", "1">>, "endNode") >>,
        << Edge(<<"l", "l", "m", "N", "o", "d", "e", "-", "1">>,
                <<"t", "o", "o", "l", "N", "o", "d", "e", "-", "1">>,
                NoHandle, NoHandle),
           Edge(<<"t", "o", "o", "l", "N", "o", "d", "e", "-", "1">>,
                <<"e", "n", "d", "N", "o", "d", "e", "-", "1">>,
                NoHandle, NoHandle) >>)
invalid_data == [present |-> {"nodes"}, nodes |-> << >>, edges |-> << >>]

\* Schemas that vary the node list, and schemas that vary the edge list over
\* a fork node, a join node and a decision node.
NodeSchemas ==
    {GraphSchema(ns, << >>) :
        ns \in SeqUpTo({Node(i, t) : i \in NodeIds, t \in NodeTypes}, MaxNodes)}
WiringNodes ==
    << Node(<<"a", "-", "1">>, "parallelForkNode"),
       Node(<<"b">>, "parallelJoinNode"),
       Node(<<"c">>, "decisionNode") >>
EdgeSchemas ==
    {GraphSchema(WiringNodes, es) : es \in SeqUpTo(Edges, MaxEdges)}

\* FastAPI validates the body against GraphSchema before the handler runs.
Validates(body) == body.present = AllFields

\* ------------------------------------------------------- the template
\* The block tags of LANGGRAPH_TEMPLATE in source order.  Blocks nested in
\* another block are balanced and left out (their do tags are kept); the
\* tags are those of lines
\* 107 492 / 494 520 / 522 595 / 597 697 / 699 809 / 811 913 / 922 926 /
\* 929 934 / 960 / 962 1042 / 1053 / 1055 1124 / 1125 / 1128 1129 /
\* 1130 1132 1134 1136 / 1140 1144 / 1147 1221 / 1225 / 1226 1230 /
\* 1233 1237.
LANGGRAPH_TEMPLATE ==
    << "for", "endfor", "if", "endif", "if", "endif", "if", "endif",
       "if", "endif", "if", "endif", "if", "endif", "if", "endif",
       "endif", "if", "endif", "endif", "if", "endif", "endfor",
       "set", "set", "for", "do", "do", "endfor", "for", "endfor",
       "for", "endfor", "set", "for", "endfor", "if", "endif" >>

\* The opening tag an end tag closes.
Opens(tag) == IF tag = "endfor" THEN "for" ELSE "if"

\* jinja2.Template(source) with no extension: the parser keeps the open
\* blocks on a stack; an end tag that closes nothing, a tag it does not
\* know (do needs jinja2.ext.do) and a block left open are syntax errors.
RECURSIVE Parse(_, _, _)
Parse(source, k, open) ==
    IF k > Len(source)
    THEN IF open = << >> THEN "Template" ELSE "TemplateSyntaxError"
    ELSE LET tag == source[k]
         IN  IF tag \in {"for", "if"}
             THEN Parse(source, k + 1, Append(open, tag))
             ELSE IF tag \in {"endfor", "endif"}
             THEN IF open # << >> /\ open[Len(open)] = Opens(tag)
                  THEN Parse(source, k + 1, SubSeq(open, 1, Len(open) - 1))
                  ELSE "TemplateSyntaxError"
             ELSE IF tag = "set"
             THEN Parse(source, k + 1, open)
             ELSE "TemplateSyntaxError"

Template(source) == Parse(source, 1, << >>)

\* 'word' in handle, for a handle that may be None or empty: a substring
\* test; of the words used here only should_retry holds another one.
contains(handle, word) ==
    \E k \in 1..Len(handle) :
        \/ handle[k] = word
        \/ handle[k] = "should_retry" /\ word = "retry"

\* {{ edge.sourceHandle|replace('decision.', '') }}: "decision" goes where a
\* dot follows it.
RECURSIVE replace_decision_dot(_)
replace_decision_dot(handle) ==
    IF Len(handle) <= 1 THEN handle
    ELSE IF Head(handle) = "decision" THEN replace_decision_dot(Tail(handle))
    ELSE <<Head(handle)>> \o replace_decision_dot(Tail(handle))

\* Lines 1128-1136: the ids collected by the two append loops.
parallel_fork_nodes(nodes) ==
    {nodes[k].id : k \in {j \in 1..Len(nodes) : nodes[j].type = "parallelForkNode"}}
parallel_join_nodes(nodes) ==
    {nodes[k].id : k \in {j \in 1..Len(nodes) : nodes[j].type = "parallelJoinNode"}}

\* The class of an edge with fork tried before everything else.
EdgeClass_ForkFirst(edge, nodes) ==
    IF \/ edge.source \in parallel_fork_nodes(nodes)
       \/ contains(edge.sourceHandle, "fork") THEN "fork"
    ELSE IF contains(edge.sourceHandle, "decision") THEN "decision"
    ELSE IF contains(edge.sourceHandle, "loop") THEN "loop"
    ELSE IF contains(edge.sourceHandle, "retry") THEN "retry"
    ELSE IF \/ edge.target \in parallel_join_nodes(nodes)
            \/ contains(edge.targetHandle, "join") THEN "join"
    ELSE "direct"

\* Lines 1150-1219: the if / elif chain that picks an edge's wiring.
EdgeClass(edge, nodes) ==
    IF contains(edge.sourceHandle, "decision") THEN "decision"
    ELSE IF contains(edge.sourceHandle, "loop") THEN "loop"
    ELSE IF contains(edge.sourceHandle, "retry") THEN "retry"
    ELSE IF \/ edge.source \in parallel_fork_nodes(nodes)
            \/ contains(edge.sourceHandle, "fork") THEN "fork"
    ELSE IF \/ edge.target \in parallel_join_nodes(nodes)
            \/ contains(edge.targetHandle, "join") THEN "join"
    ELSE "direct"

\* The lambda of an add_conditional_edges call: result.get(key, default)
\* compared with value ("equals"), taken as a truth value ("truthy") or
\* negated ("falsy"); "always" is add_edge, "never" no call at all.
Condition(test, key, default, value) ==
    [test |-> test, key |-> key, default |-> default, value |-> value]
Unconditional == Condition("always", "", << >>, << >>)
NoWiring == Condition("never", "", << >>, << >>)

\* The condition emitted for an edge of each class.
EdgeCondition(edge, class) ==
    LET sh == edge.sourceHandle
    IN  CASE class = "decision" ->
                 Condition("equals", "decision", <<"default">>,
                           replace_decision_dot(sh))
          [] class = "loop" ->
                 IF contains(sh, "continue")
                 THEN Condition("equals", "decision", << >>, <<"continue">>)
                 ELSE IF contains(sh, "exit")
                 THEN Condition("equals", "decision", << >>, <<"exit">>)
                 ELSE NoWiring
          [] class = "retry" ->
                 IF contains(sh, "should_retry")
                 THEN Condition("truthy", "should_retry", << >>, << >>)
                 ELSE IF contains(sh, "continue")
                 THEN Condition("falsy", "should_retry", << >>, << >>)
                 ELSE NoWiring
          [] OTHER -> Unconditional

\* Lines 1147-1221 for the edge at position k of the edge list: its class,
\* the call, and for a join edge the parallel_results annotation, which is
\* written under {% if not loop.last %}.
EdgeWiring(edges, k, nodes) ==
    LET edge == edges[k]
        class == EdgeClass(edge, nodes)
    IN  [class |-> class,
         source |-> sanitize(edge.source),
         target |-> sanitize(edge.target),
         condition |-> EdgeCondition(edge, class),
         annotated |-> class = "join" /\ k # Len(edges)]

\* Node types with a block in the template: each writes one top-level name.
TemplatedTypes ==
    {"startNode", "endNode", "agentNode", "memoryReadNode", "memoryWriteNode",
     "toolNode", "decisionNode", "parallelForkNode", "parallelJoinNode",
     "loopNode", "errorRetryNode", "timeoutGuardNode", "subgraphNode",
     "customNode"}

\* The top-level names, in node order (def ... / ... = ToolNode(...)).
function_names(nodes) ==
    LET templated == SelectSeq(nodes, LAMBDA n : n.type \in TemplatedTypes)
    IN  [k \in 1..Len(templated) |-> sanitize(templated[k].id)]

\* Lines 605-607, 712-714, 828-830: the key of a node's entry in
\* state['loop_state'] / ['retry_state'] / ['timeout_state'].
state_keys(nodes, type) ==
    LET keyed == SelectSeq(nodes, LAMBDA n : n.type = type)
    IN  [k \in 1..Len(keyed) |-> sanitize(keyed[k].id)]

\* Lines 1140-1144: graph.add_node for the nodes not registered in place.
add_node_calls(nodes) ==
    LET late == SelectSeq(nodes, LAMBDA n :
                    n.type \notin {"toolNode", "memoryReadNode", "memoryWriteNode"})
    IN  [k \in 1..Len(late) |-> sanitize(late[k].id)]

\* Lines 1225-1237: one set_entry_point per start node, then the fallback.
\* The set inside the for loop binds has_start in the loop's scope only, so
\* the test after the loop still reads false.
set_entry_point_calls(nodes) ==
    LET starts == SelectSeq(nodes, LAMBDA n : n.type = "startNode")
        has_start == FALSE
    IN  [k \in 1..Len(starts) |-> sanitize(starts[k].id)]
        \o (IF ~has_start THEN <<sanitize(nodes[1].id)>> ELSE << >>)

\* ------------------------------------------------------- the route
\* template.render(graph_name, nodes, edges): what the blocks write.
render(schema) ==
    [functions |-> function_names(schema.nodes),
     loop_state_keys |-> state_keys(schema.nodes, "loopNode"),
     add_node |-> add_node_calls(schema.nodes),
     wiring |-> [k \in 1..Len(schema.edges) |->
                    EdgeWiring(schema.edges, k, schema.nodes)],
     set_entry_point |-> set_entry_point_calls(schema.nodes)]

\* python -m py_compile on the written file: its return code.  The program
\* compiles when every name the template writes bare is an identifier.
py_compile(code) ==
    IF /\ \A k \in 1..Len(code.functions) : IsIdentifier(code.functions[k])
       /\ \A k \in 1..Len(code.add_node) : IsIdentifier(code.add_node[k])
       /\ \A k \in 1..Len(code.wiring) :
             code.wiring[k].condition.test # "never"
                 => /\ IsIdentifier(code.wiring[k].source)
                    /\ IsIdentifier(code.wiring[k].target)
    THEN 0 ELSE 1

\* An exception leaving a block of code, and a normal return.
Raise(exception, status_code) ==
    [status_code |-> status_code, raised |-> exception, code |-> None]
Return(code) == [status_code |-> 200, raised |-> "none", code |-> code]

\* Lines 1262-1292, the body of the try from template.render on: nodes[0]
\* of an empty node list is undefined and its .id raises; a failed compile
\* check raises HTTPException(400).
TryBody(schema) ==
    IF Len(schema.nodes) = 0 THEN Raise("UndefinedError", 0)
    ELSE LET rendered_code == render(schema)
         IN  IF py_compile(rendered_code) # 0
             THEN Raise("HTTPException", 400)
             ELSE Return(rendered_code)

\* Lines 1294-1295: except Exception as e: raise HTTPException(500, str(e)).
\* HTTPException is an Exception, so the 400 raised in the try is caught too.
except_Exception(outcome) ==
    IF outcome.raised = "none" THEN outcome ELSE Raise("HTTPException", 500)

\* A client posts a body to /generate_code (one request is followed: the
\* handler keeps nothing from one request to the next).
post(body) ==
    /\ graph_schema' = body
    /\ http_response' = NoResponse
    /\ UNCHANGED <<loop_state, coordinator_vars, runtime_vars>>

\* POST /generate_code, the whole route: body validation (422), then the
\* handler, whose first statement builds the template.
generate_python_code ==
    /\ graph_schema # NoSchema
    /\ http_response = NoResponse
    /\ http_response' =
          IF ~Validates(graph_schema)
          THEN Raise("RequestValidationError", 422)
          ELSE IF Template(LANGGRAPH_TEMPLATE) = "TemplateSyntaxError"
          THEN except_Exception(Raise("TemplateSyntaxError", 0))
          ELSE except_Exception(TryBody(graph_schema))
    /\ UNCHANGED <<graph_schema, loop_state, coordinator_vars, runtime_vars>>

\* The handler from template.render on, the blocks of the template
\* evaluated as they are written (what the route does once the template
\* object exists).
render_and_compile ==
    /\ graph_schema # NoSchema
    /\ http_response = NoResponse
    /\ http_response' = except_Exception(TryBody(graph_schema))
    /\ UNCHANGED <<graph_schema, loop_state, coordinator_vars, runtime_vars>>

GenerateNext ==
    \/ /\ graph_schema = NoSchema
       /\ \E body \in NodeSchemas \cup {VALID_GRAPH_DATA, invalid_data} :
              post(body)
    \/ generate_python_code

GenerateSpec == Init /\ [][GenerateNext]_vars

RenderNext ==
    \/ /\ graph_schema = NoSchema
       /\ \E body \in NodeSchemas \cup EdgeSchemas \cup {VALID_GRAPH_DATA} :
              post(body)
    \/ render_and_compile

RenderSpec == Init /\ [][RenderNext]_vars

\* ------------------------------------------------------------ vocabulary
Answered == http_response # NoResponse
Accepted == http_response.status_code = 200
ClientError == http_response.status_code \in 400..499

NodeIdsOf(schema) == {schema.nodes[k].id : k \in 1..Len(schema.nodes)}
HasType(schema, type) == \E k \in 1..Len(schema.nodes) : schema.nodes[k].type = type

\* The dict a node function returns, by its one signal key; dict.get.
Result(key, value) == [key |-> key, value |-> value]
get(result, key, default) == IF result.key = key THEN result.value ELSE default

\* Lines 361-489: every return of a decision node is {"next": <branch>}, the
\* branch one of evaluate_condition's results, a declared branch or default.
decisionNode_returns ==
    {Result("next", <<b>>) :
        b \in {"error", "success", "missing", "failure", "default"}}

\* What add_conditional_edges is given as path: the lambda's value on the
\* source node's result.
Fires(condition, result) ==
    CASE condition.test = "equals" ->
             get(result, condition.key, condition.default) = condition.value
      [] condition.test = "truthy" ->
             get(result, condition.key, FALSE) = TRUE
      [] condition.test = "falsy" ->
             get(result, condition.key, FALSE) # TRUE
      [] condition.test = "always" -> TRUE
      [] OTHER -> FALSE

\* The test that puts an edge in a class, each on its own.
Matches(edge, nodes, class) ==
    CASE class = "decision" -> contains(edge.sourceHandle, "decision")
      [] class = "loop" -> contains(edge.sourceHandle, "loop")
      [] class = "retry" -> contains(edge.sourceHandle, "retry")
      [] class = "fork" -> \/ edge.source \in parallel_fork_nodes(nodes)
                           \/ contains(edge.sourceHandle, "fork")
      [] class = "join" -> \/ edge.target \in parallel_join_nodes(nodes)
                           \/ contains(edge.targetHandle, "join")
      [] OTHER -> TRUE
Precedence == <<"decision", "loop", "retry", "fork", "join", "direct">>

\* ----------------------------------------------------------------- C12
\* C12: POST /generate_code answers 422 when the body fails schema
\* validation, 400 when the generated program fails its compile check, and
\* 500 only for an unexpected internal error, never for a compile failure.
C12_StatusCodes ==
    Answered =>
        /\ ~Validates(graph_schema) => http_response.status_code = 422
        /\ ( /\ Validates(graph_schema)
             /\ Len(graph_schema.nodes) > 0
             /\ py_compile(render(graph_schema)) # 0 )
               => http_response.status_code = 400

\* ----------------------------------------------------------------- C13
\* C13: for the graph of the endpoint test and for every valid schema with a
\* start node and an end node, the route answers 200 with the emitted
\* program, which compiles.
C13_ValidGraphCompiles ==
    ( /\ Answered
      /\ Validates(graph_schema)
      /\ \/ graph_schema = VALID_GRAPH_DATA
         \/ /\ HasType(graph_schema, "startNode")
            /\ HasType(graph_schema, "endNode")
            /\ \A id \in NodeIdsOf(graph_schema) : IsIdentifier(sanitize(id)) )
        => /\ Accepted
           /\ http_response.code # None
           /\ py_compile(http_response.code) = 0

\* ----------------------------------------------------------------- C14
\* C14: a schema in which an edge's source or target is not the id of one of
\* its nodes is rejected with a client error and no program is emitted.
C14_DanglingEdgeRejected ==
    ( /\ Answered
      /\ \E k \in 1..Len(graph_schema.edges) :
            \/ graph_schema.edges[k].source \notin NodeIdsOf(graph_schema)
            \/ graph_schema.edges[k].target \notin NodeIdsOf(graph_schema) )
        => /\ ClientError
           /\ http_response.code = None

\* ----------------------------------------------------------------- C15
\* C15: every node id maps to exactly one compiled unit: a schema in which
\* two distinct node ids sanitize to the same identifier is rejected, and
\* an accepted program has no two nodes with the same function name or the
\* same loop_state key.
C15_OneUnitPerNode ==
    ( /\ Answered
      /\ \A i, j \in 1..Len(graph_schema.nodes) :
            graph_schema.nodes[i].id = graph_schema.nodes[j].id => i = j )
        => /\ (\E i, j \in NodeIdsOf(graph_schema) :
                   i # j /\ sanitize(i) = sanitize(j)) => ~Accepted
           /\ Accepted =>
                 LET f == http_response.code.functions
                     s == http_response.code.loop_state_keys
                 IN  /\ \A i, j \in 1..Len(f) : f[i] = f[j] => i = j
                     /\ \A i, j \in 1..Len(s) : s[i] = s[j] => i = j

\* ----------------------------------------------------------------- C16
\* C16: the emitted program's entry point is the first declared start node;
\* the first node of the list is the entry point only when the schema has
\* no start node.  (Of several set_entry_point calls the last one stands; a
\* library that adds an entry per call has the last one among its entries.)
C16_EntryPointIsFirstStart ==
    Accepted =>
        LET nodes == graph_schema.nodes
            starts == {k \in 1..Len(nodes) : nodes[k].type = "startNode"}
            first == IF starts # {}
                     THEN CHOOSE k \in starts : \A j \in starts : k <= j
                     ELSE 1
            calls == http_response.code.set_entry_point
        IN  /\ Len(calls) > 0
            /\ calls[Len(calls)] = sanitize(nodes[first].id)

\* ----------------------------------------------------------------- C17
\* C17: for every edge that leaves a decision node with a handle encoding
\* branch B, the edge's condition fires on the node's result exactly when
\* the result is next = B.
C17_DecisionSignalRoutes ==
    Accepted =>
        \A k \in 1..Len(graph_schema.edges) :
            LET edge == graph_schema.edges[k]
                wiring == http_response.code.wiring[k]
            IN  ( /\ wiring.class = "decision"
                  /\ \E n \in 1..Len(graph_schema.nodes) :
                        /\ graph_schema.nodes[n].id = edge.source
                        /\ graph_schema.nodes[n].type = "decisionNode" )
                    => \A result \in decisionNode_returns :
                          Fires(wiring.condition, result)
                              <=> result.value = replace_decision_dot(edge.sourceHandle)

C19_JoinEdgesContribute ==
    Accepted =>
        \A k \in 1..Len(graph_schema.edges) :
            http_response.code.wiring[k].class = "join"
                => /\ http_response.code.wiring[k].condition = Unconditional
                   /\ http_response.code.wiring[k].annotated

\* ------------------------------------------------------- the loop node
\* A value a template expression may find undefined.
Undefined == [defined |-> FALSE, value |-> 0]
Defined(value) == [defined |-> TRUE, value |-> value]

\* Jinja2 filter default(value): replaces an undefined value only.
default(x, value) == IF x.defined THEN x.value ELSE value

\* class NodeData: the fields pydantic keeps of a posted node's data; every
\* other key of the posted object is dropped, and the template reads it as
\* undefined.
NodeDataFields ==
    {"label", "model", "temperature", "maxTokens", "modulePath",
     "functionName", "argsSchema", "condition", "branches", "outputFormat",
     "finalTransform", "graphId", "version", "inputMapping", "outputMapping"}
NodeData(posted) ==
    [name \in DOMAIN posted |->
        IF name \in NodeDataFields THEN posted[name] ELSE Undefined]

\* The loop-node data a client may post.
LoopData ==
    [maxIterations : {Undefined, Defined(0), Defined(3), Defined(MaxPasses)},
     collectionKey : {Undefined, Defined(1)},
     condition : {Undefined, Defined(1)}]

\* Line 617: if max_iterations > 0 and loop_state['iterations'] >= max_iterations
ReachedMaximum(max_iterations, iterations) ==
    max_iterations > 0 /\ iterations >= max_iterations

\* Lines 597-697 rendered for a posted loop node: the constants the template
\* writes into the function, and the node's entry of state['loop_state']
\* as the function creates it (lines 607-611).
render_loopNode(posted) ==
    LET data == NodeData(posted)
    IN  /\ loop_state = NoLoop
        /\ loop_state' =
              [mode |-> IF data.collectionKey.defined THEN "collection"
                        ELSE IF data.condition.defined THEN "condition"
                        ELSE "always",
               posted |-> posted,
               max_iterations |-> default(data.maxIterations, 10),
               iterations |-> 0,
               complete |-> FALSE,
               passes |-> 0,
               continues |-> 0,
               decision |-> "none"]
        /\ UNCHANGED <<graph_schema, http_response, coordinator_vars, runtime_vars>>

\* One pass of an execution through the emitted function.  should_continue
\* is what the configured condition returns, or whether the collection has
\* an item left; passes and continues count the passes and the
\* decision=continue results of this execution.
loopNode(should_continue) ==
    /\ loop_state # NoLoop
    /\ loop_state.passes < MaxPasses
    /\ IF ReachedMaximum(loop_state.max_iterations, loop_state.iterations)
       THEN loop_state' = [loop_state EXCEPT !.passes = @ + 1,
                                             !.decision = "exit"]
       ELSE IF loop_state.mode = "always" \/ should_continue
       THEN loop_state' = [loop_state EXCEPT !.passes = @ + 1,
                                             !.iterations = @ + 1,
                                             !.continues = @ + 1,
                                             !.decision = "continue"]
       ELSE loop_state' = [loop_state EXCEPT !.passes = @ + 1,
                                             !.iterations = @ + 1,
                                             !.complete = TRUE,
                                             !.decision = "exit"]
    /\ UNCHANGED <<graph_schema, http_response, coordinator_vars, runtime_vars>>

LoopNext ==
    \/ \E posted \in LoopData : render_loopNode(posted)
    \/ \E should_continue \in BOOLEAN : loopNode(should_continue)

LoopSpec == Init /\ [][LoopNext]_vars

\* ----------------------------------------------------------------- C20
\* C20: a configured (positive) maxIterations is a hard cap in every
\* iteration mode: the node emits decision=continue at most maxIterations
\* times in one execution, and every pass after the maxIterations-th emits
\* exit.
C20_MaxIterationsIsHardCap ==
    ( /\ loop_state # NoLoop
      /\ loop_state.posted.maxIterations.defined
      /\ loop_state.posted.maxIterations.value > 0 )
        => /\ loop_state.continues <= loop_state.posted.maxIterations.value
           /\ loop_state.passes > loop_state.posted.maxIterations.value
                 => loop_state.decision = "exit"

\* ------------------------------------------------- emitted node functions
\* Python dictionaries are functions from their keys to their values; a
\* value is written as the text of its literal ("True", "[]", "['e']").

\* d.update(e), and the display {**d, **e}: the keys of e win.
update(d, e) ==
    [k \in DOMAIN d \cup DOMAIN e |-> IF k \in DOMAIN e THEN e[k] ELSE d[k]]

\* bool(value) of a literal
Truthy(value) == value \notin {"False", "[]", "", "None", "0"}

\* The dictionaries over the keys of values, values[k] the literals key k
\* may hold.
Dicts(values) ==
    UNION { {d \in [K -> UNION {values[k] : k \in K}] :
                 \A k \in K : d[k] \in values[k]} : K \in SUBSET DOMAIN values }

\* The error-retry data a client may post, and the entries of the graph
\* state the emitted function reads or overwrites.
RetryData == [maxRetries : {Undefined, Defined(1), Defined(2)}]
RetryStates ==
    Dicts([error |-> {"e"}, errors |-> {"[]", "['e']"},
           should_retry |-> {"True", "False"}])

\* Lines 738-747: error_detected
error_detected(state) ==
    \/ "error" \in DOMAIN state
    \/ "errors" \in DOMAIN state /\ Truthy(state["errors"])

\* Line 730: if retry_state['attempts'] >= max_retries
attempts_exhausted(attempts, max_retries) == attempts >= max_retries

\* Lines 699-789 rendered for a posted error-retry node: max_retries as the
\* template writes it (line 723) and the node's entry of
\* state['retry_state'] as the function creates it (lines 713-717).
render_errorRetryNode(posted) ==
    /\ node_run = NoRun
    /\ node_run' = [node |-> "errorRetryNode",
                    posted |-> posted,
                    max_retries |-> default(NodeData(posted).maxRetries, 3),
                    attempts |-> 0,
                    passes |-> 0,
                    before |-> 0,
                    state |-> << >>,
                    result |-> << >>]
    /\ UNCHANGED <<memory, executor, coordinator_vars, compiler_vars>>

\* One pass of an execution through the emitted function with the graph
\* state it is handed (lines 706-789); before is the attempt counter the
\* pass found, result the dictionary it returned.
errorRetryNode(state) ==
    /\ node_run.node = "errorRetryNode"
    /\ node_run.passes < MaxPasses
    /\ LET attempts == node_run.attempts
           ran == [node_run EXCEPT !.passes = @ + 1,
                                   !.before = attempts,
                                   !.state = state]
       IN  IF attempts_exhausted(attempts, node_run.max_retries)
           THEN node_run' =
                    [ran EXCEPT !.result =
                        update([should_retry |-> "False"], state)]
           ELSE IF error_detected(state)
           THEN node_run' =
                    [ran EXCEPT !.attempts = @ + 1,
                                !.result =
                        update([should_retry |-> "True",
                                retry_attempt |-> "attempts",
                                retry_delay_ms |-> "delay_ms",
                                retry_state |-> "retry_state"], state)]
           ELSE node_run' =
                    [ran EXCEPT !.result =
                        update([should_retry |-> "False"], state)]
    /\ UNCHANGED <<memory, executor, coordinator_vars, compiler_vars>>

RetryNext ==
    \/ \E posted \in RetryData : render_errorRetryNode(posted)
    \/ \E state \in RetryStates : errorRetryNode(state)

RetrySpec == Init /\ [][RetryNext]_vars

\* The maxRetries a client configured, 3 when it configured none.
ConfiguredMaxRetries == default(node_run.posted.maxRetries, 3)

\* ----------------------------------------------------------------- C21
\* C21: an error-retry node signals should_retry=true on each pass that
\* sees an error in the state (an error key or a non-empty errors list)
\* while its attempt counter is below the configured maxRetries, and once
\* maxRetries is exhausted every later pass signals should_retry=false,
\* whatever the state contains.
C21_RetryUntilExhausted ==
    (node_run.node = "errorRetryNode" /\ node_run.passes > 0)
        => /\ (error_detected(node_run.state)
                  /\ node_run.before < ConfiguredMaxRetries)
                 => node_run.result["should_retry"] = "True"
           /\ node_run.before >= ConfiguredMaxRetries
                 => node_run.result["should_retry"] = "False"


\* ------------------------------------------------------- decision node
\* d.get(key, otherwise)
dict_get(d, key, otherwise) == IF key \in DOMAIN d THEN d[key] ELSE otherwise

\* A posted value that is absent or null, for a text and for a list.
NoText == [defined |-> FALSE, value |-> ""]
NoList == [defined |-> FALSE, value |-> << >>]

\* The decision-node data a client may post.  A condition is the sequence of
\* its words; a predicate is its name, its expression being what the run
\* finds it to evaluate to.
Predicates == <<[name |-> "p1"], [name |-> "p2"]>>
DecisionData ==
    [evaluationMode : {NoText, Defined("advanced"), Defined("simple")},
     predicates : {NoList, Defined(Predicates)},
     defaultBranch : {NoText, Defined("success")},
     branches : {NoList, Defined(<<"failure", "success">>),
                 Defined(<<"error", "success">>)},
     condition : {NoText, Defined(<<"check">>), Defined(<<"success">>),
                  Defined(<<"error", "or", "success">>),
                  Defined(<<"fail">>)}]
DecisionStates ==
    Dicts([errors |-> {"[]", "['e']"}, output |-> {"", "o"}])
Evaluations == [1..Len(Predicates) -> {"True", "False", "raises"}]

\* Lines 393-399 (and 403-409, 461-467, 472-478, 482-488): the branch
\* returned when nothing else is; a null or empty value is falsy.
FallbackBranch(data) ==
    IF data.defaultBranch.defined /\ data.defaultBranch.value # ""
    THEN data.defaultBranch.value
    ELSE IF data.branches.defined /\ Len(data.branches.value) > 0
    THEN data.branches.value[1]
    ELSE "default"

\* Lines 361 and 412: which body the template writes into the function.
evaluationMode(data) ==
    IF /\ data.evaluationMode.defined
       /\ data.evaluationMode.value = "advanced"
       /\ data.predicates.defined /\ Len(data.predicates.value) > 0
    THEN "advanced"
    ELSE IF \/ ~data.evaluationMode.defined
            \/ data.evaluationMode.value \in {"simple", ""}
    THEN "simple"
    ELSE "default"

\* Line 87: GraphState is a TypedDict, its instances are dict objects, and
\* a dict has no attribute `dict`: state.dict() on line 367 raises
\* AttributeError, which the handler of lines 401-410 catches.
state_has_dict_method == FALSE

\* Lines 380-390: the predicates in declared order, each in its own try.
RECURSIVE first_true(_, _, _)
first_true(predicates, evaluation, k) ==
    IF k > Len(predicates) THEN "none"
    ELSE IF evaluation[k] = "True" THEN predicates[k].name
    ELSE first_true(predicates, evaluation, k + 1)

\* Lines 363-410: the advanced body.
advanced(data, evaluation) ==
    IF ~state_has_dict_method THEN FallbackBranch(data)
    ELSE LET name == first_true(data.predicates.value, evaluation, 1)
         IN  IF name # "none" THEN name ELSE FallbackBranch(data)

\* Lines 422-443: evaluate_condition on the condition's text and the state
\* values.
evaluate_condition(condition, state_values) ==
    IF contains(condition, "error") /\ Truthy(state_values["errors"])
    THEN "error"
    ELSE IF contains(condition, "success") /\ Truthy(state_values["output"])
    THEN "success"
    ELSE IF /\ contains(condition, "empty") \/ contains(condition, "missing")
            /\ ~Truthy(state_values["output"])
    THEN "missing"
    ELSE IF /\ contains(condition, "fail")
            /\ ~Truthy(state_values["output"])
                   \/ Truthy(state_values["errors"])
    THEN "failure"
    ELSE "default"

\* Lines 414-478: the simple body.  A null condition is written as the text
\* None; null branches are written as `null`, a name Python does not know:
\* line 457 raises NameError, caught on line 469.
simple(data, state) ==
    LET state_values ==
            [output |-> dict_get(state, "output", ""),
             errors |-> dict_get(state, "errors", "[]")]
        condition == IF data.condition.defined THEN data.condition.value
                     ELSE <<"none">>
        result == evaluate_condition(condition, state_values)
    IN  IF ~data.branches.defined THEN FallbackBranch(data)
        ELSE IF \E k \in 1..Len(data.branches.value) :
                    data.branches.value[k] = result
        THEN result
        ELSE FallbackBranch(data)

\* Lines 356-490 rendered for a posted decision node: the template sees the
\* data as NodeData kept it.
render_decisionNode(posted) ==
    /\ node_run = NoRun
    /\ node_run' = [node |-> "decisionNode",
                    posted |-> posted,
                    data |-> NodeData(posted),
                    mode |-> evaluationMode(NodeData(posted)),
                    passes |-> 0,
                    state |-> << >>,
                    evaluation |-> << >>,
                    next |-> "none"]
    /\ UNCHANGED <<memory, executor, coordinator_vars, compiler_vars>>

\* One pass through the emitted function: {"next": <branch>}.  evaluation
\* is what each predicate's expression comes to on this state.
decisionNode(state, evaluation) ==
    /\ node_run.node = "decisionNode"
    /\ node_run.passes = 0
    /\ node_run' =
           [node_run EXCEPT
               !.passes = 1,
               !.state = state,
               !.evaluation = evaluation,
               !.next = CASE node_run.mode = "advanced" ->
                                 advanced(node_run.data, evaluation)
                          [] node_run.mode = "simple" ->
                                 simple(node_run.data, state)
                          [] OTHER -> FallbackBranch(node_run.data)]
    /\ UNCHANGED <<memory, executor, coordinator_vars, compiler_vars>>

DecisionNext ==
    \/ \E posted \in DecisionData : render_decisionNode(posted)
    \/ \E state \in DecisionStates, evaluation \in Evaluations :
           decisionNode(state, evaluation)

DecisionSpec == Init /\ [][DecisionNext]_vars

\* The branch a client configured for the case that nothing matches.
ConfiguredFallback ==
    IF node_run.posted.defaultBranch.defined
    THEN node_run.posted.defaultBranch.value
    ELSE node_run.posted.branches.value[1]

\* ----------------------------------------------------------------- C22
\* C22: in advanced mode a decision node emits next = the name of the first
\* predicate, in declared order, that evaluates true (a predicate that
\* raises is passed over); if none is true it emits the configured default
\* branch, else the first configured branch.
C22_FirstTruePredicateWins ==
    ( /\ node_run.node = "decisionNode" /\ node_run.passes > 0
      /\ node_run.posted.evaluationMode = Defined("advanced")
      /\ node_run.posted.predicates.defined
      /\ node_run.posted.branches.defined )
        => LET name == first_true(node_run.posted.predicates.value,
                                  node_run.evaluation, 1)
           IN  node_run.next = IF name # "none" THEN name
                               ELSE ConfiguredFallback

\* ----------------------------------------------------------------- C23
\* C23: in simple mode a decision node resolves a state with a non-empty
\* errors list to the error or failure branch, and a state with a non-empty
\* output and no errors to success; when that key is not one of the
\* configured branches it emits the configured default branch, or the
\* first branch when no default is configured.
C23_SimpleModeHeuristic ==
    ( /\ node_run.node = "decisionNode" /\ node_run.passes > 0
      /\ node_run.posted.evaluationMode # Defined("advanced")
      /\ node_run.posted.branches.defined )
        => LET errors == Truthy(dict_get(node_run.state, "errors", "[]"))
               output == Truthy(dict_get(node_run.state, "output", ""))
               branches == {node_run.posted.branches.value[k] :
                               k \in 1..Len(node_run.posted.branches.value)}
               keys == IF errors THEN {"error", "failure"}
                       ELSE IF output THEN {"success"}
                       ELSE {}
           IN  (errors \/ output)
                   => IF keys \cap branches # {}
                      THEN node_run.next \in keys \cap branches
                      ELSE node_run.next = ConfiguredFallback


\* ------------------------------------------------------ parallel join
\* A Python value by its type: a dict is its mapping, a list its sequence
\* of items, a str its sequence of characters, an int itself.
DictV(mapping) == [dict |-> mapping]
ListV(items) == [list |-> items]
StrV(chars) == [str |-> chars]
IntV(n) == [int |-> n]
isinstance(value, type) == DOMAIN value = {type}

\* How many branches deliver a result to a join.
MaxBranches == 2

\* What a branch may deliver: a dict over the keys a and b, or a list.  The
\* join edges append the results to state['parallel_results'] as the
\* branches arrive (line 1208).
BranchResults ==
    {DictV(d) : d \in Dicts([a |-> {1, 2}, b |-> {1, 2}])} \cup {ListV(<<IntV(1)>>)}
JoinStates ==
    {<< >>} \cup
    {[parallel_results |-> ListV(results)] :
        results \in SeqUpTo(BranchResults, MaxBranches)}

\* Lines 584-586: merged_dict = {}; for r in results: merged_dict.update(r)
RECURSIVE merged_dict(_, _)
merged_dict(results, k) ==
    IF k = 0 THEN << >>
    ELSE update(merged_dict(results, k - 1), results[k].dict)

\* Lines 578-594: the default-strategy body of the emitted join function.
parallelJoinNode(state) ==
    /\ node_run = NoRun
    /\ node_run' =
           [node |-> "parallelJoinNode",
            state |-> state,
            result |->
               IF "parallel_results" \in DOMAIN state
               THEN LET results == state["parallel_results"].list
                    IN  IF \A k \in 1..Len(results) :
                               isinstance(results[k], "dict")
                        THEN update(state,
                                 [output |->
                                     DictV(merged_dict(results, Len(results)))])
                        ELSE update(state, [output |-> ListV(results)])
               ELSE state]
    /\ UNCHANGED <<memory, executor, coordinator_vars, compiler_vars>>

JoinNext == \E state \in JoinStates : parallelJoinNode(state)

JoinSpec == Init /\ [][JoinNext]_vars

\* The arrival orders of n results, and the results in such an order.
Orders(n) == {p \in [1..n -> 1..n] : \A i, j \in 1..n : p[i] = p[j] => i = j}
Arrived(results, order) == [k \in 1..Len(results) |-> results[order[k]]]

\* ----------------------------------------------------------------- C24
\* C24: with the default merge strategy and all parallel results being
\* maps, the join's merged output is the same for every arrival order of
\* the same branch results.
C24_MergeIsOrderInsensitive ==
    ( /\ node_run.node = "parallelJoinNode"
      /\ "parallel_results" \in DOMAIN node_run.state
      /\ \A k \in 1..Len(node_run.state["parallel_results"].list) :
             isinstance(node_run.state["parallel_results"].list[k], "dict") )
        => LET results == node_run.state["parallel_results"].list
           IN  \A order \in Orders(Len(results)) :
                   node_run.result["output"] =
                       DictV(merged_dict(Arrived(results, order),
                                         Len(results)))


\* ---------------------------------------------------- human-pause node
\* Lines 938-959 of the emitted humanPause function, on the outcome of the
\* human_pause call it makes (request_intervention call i): the signal it
\* returns and the state the signal carries.  A state's keys are the keys
\* it holds beside those of the original state.
humanPauseNode(i) ==
    IF waiter[i].pc = "raised"
    THEN [signal |-> "skip", state |-> StateOf(i)]
    ELSE IF "_human_pause_skipped" \in waiter[i].ret.keys
    THEN [signal |-> "skip",
          state |-> [waiter[i].ret EXCEPT
                        !.keys = @ \ {"_human_pause_skipped"}]]
    ELSE [signal |-> "continue", state |-> waiter[i].ret]

\* ----------------------------------------------------------------- C25
\* C25: a humanPause node routes to continue, carrying the returned state,
\* when the human resumed the request normally; it routes to skip when the
\* wait was skipped (resume with skip=true) or timed out; when requesting
\* intervention raises it routes to skip with the original state.
C25_PauseNodeRouting ==
    \A i \in Created :
        /\ (Returned(i) /\ waiter[i].resumed.ok /\ ~waiter[i].resumed.skip)
               => humanPauseNode(i) =
                      [signal |-> "continue", state |-> waiter[i].ret]
        /\ ( /\ Returned(i)
             /\ \/ waiter[i].resumed.ok /\ waiter[i].resumed.skip
                \/ ~waiter[i].resumed.ok /\ request[i].timed_out )
               => humanPauseNode(i).signal = "skip"
        /\ waiter[i].pc = "raised"
               => humanPauseNode(i) = [signal |-> "skip", state |-> StateOf(i)]


\* ----------------------------------------------------------- memory
\* How many writes one behaviour makes, and how many seconds it lasts.
MaxWrites == 2
MaxTime == 2

\* The values written: two lists, two dicts sharing a key, a str, an int.
MemoryValues ==
    {ListV(<<IntV(1)>>), DictV([a |-> 1, b |-> 1]), DictV([a |-> 2]),
     StrV(<<"s">>), IntV(1)}
MemoryKeys == {"k"}
\* The namespace argument: None (written "") or a name; ttl: None (written
\* 0) or a number of seconds.
NamespaceArgs == {"", "A"}
TtlArgs == {0, 1}

\* A key that holds nothing.
Absent == [absent |-> TRUE]

\* ns = namespace or "default"
ns_of(namespace) == IF namespace = "" THEN "default" ELSE namespace

\* store[ns][key] where both exist, and store[ns][key] = item after
\* `if ns not in store: store[ns] = {}`.
lookup(store, ns, key) ==
    IF ns \in DOMAIN store /\ key \in DOMAIN store[ns]
    THEN store[ns][key] ELSE Absent
put(store, ns, key, item) ==
    LET created == IF ns \in DOMAIN store THEN store
                   ELSE update(store, [n \in {ns} |-> << >>])
    IN  [created EXCEPT ![ns] = update(@, [k \in {key} |-> item])]

\* Lines 70-81 with the list case storing the new list only
appended_ListReplaced(existing, value) ==
    IF isinstance(existing, "list") /\ isinstance(value, "list")
    THEN value
    ELSE IF isinstance(existing, "dict") /\ isinstance(value, "dict")
    THEN DictV(update(existing.dict, value.dict))
    ELSE IF isinstance(existing, "str") /\ isinstance(value, "str")
    THEN StrV(existing.str \o value.str)
    ELSE ListV(<<existing, value>>)

\* Lines 70-81: what ShortTermMemory.write leaves under a key that holds
\* existing, overwrite_existing being false.
appended(existing, value) ==
    IF isinstance(existing, "list") /\ isinstance(value, "list")
    THEN ListV(existing.list \o value.list)
    ELSE IF isinstance(existing, "dict") /\ isinstance(value, "dict")
    THEN DictV(update(existing.dict, value.dict))
    ELSE IF isinstance(existing, "str") /\ isinstance(value, "str")
    THEN StrV(existing.str \o value.str)
    ELSE ListV(<<existing, value>>)

\* Lines 54-83: ShortTermMemory.write (ttl is not used).
ShortTermMemory_write(key, value, namespace, overwrite_existing) ==
    LET ns == ns_of(namespace)
        existing == lookup(memory.STATE_MEMORY, ns, key)
    IN  memory' =
            [memory EXCEPT
                !.writes = @ + 1,
                !.STATE_MEMORY =
                    put(@, ns, key,
                        IF existing # Absent /\ ~overwrite_existing
                        THEN appended(existing, value)
                        ELSE value),
                !.written = [tier |-> "short_term", ns |-> ns, key |-> key,
                             value |-> value,
                             overwrite_existing |-> overwrite_existing,
                             before |-> existing]]

\* Lines 129-135 removing nothing
cleanup_expired_Nothing(data, now) == data

\* Lines 129-135: _cleanup_expired on the loaded data, at time now.
cleanup_expired(data, now) ==
    [ns \in DOMAIN data |->
        [key \in {k \in DOMAIN data[ns] :
                     ~ ( /\ "_expires_at" \in DOMAIN data[ns][k]
                         /\ data[ns][k]["_expires_at"] < now )}
            |-> data[ns][key]]]

\* Lines 113-122: _load_memory.  json.load gives back what json.dump wrote
\* for the values written here (lists, dicts with str keys, strs, ints).
load_memory == cleanup_expired(memory.storage, memory.now)

\* Lines 198-212: memory_item["_value"] where the key holds an item with
\* existing_value, overwrite_existing being false.
merged_value(existing_value, value) ==
    IF isinstance(existing_value, "list") /\ isinstance(value, "list")
    THEN ListV(existing_value.list \o value.list)
    ELSE IF isinstance(existing_value, "dict") /\ isinstance(value, "dict")
    THEN DictV(update(existing_value.dict, value.dict))
    ELSE IF isinstance(existing_value, "str") /\ isinstance(value, "str")
    THEN StrV(existing_value.str \o value.str)
    ELSE ListV(<<existing_value, value>>)

\* Lines 170-217: LongTermMemory.write; _save_memory writes the cache to the
\* storage file.  (_created_at is read by nothing.)
LongTermMemory_write(key, value, namespace, ttl, overwrite_existing) ==
    LET ns == ns_of(namespace)
        memory_cache == load_memory
        existing == lookup(memory_cache, ns, key)
        item_value == IF existing # Absent /\ ~overwrite_existing
                      THEN merged_value(existing["_value"], value)
                      ELSE value
        memory_item == IF ttl # 0
                       THEN [_value |-> item_value,
                             _expires_at |-> memory.now + ttl]
                       ELSE [_value |-> item_value]
    IN  memory' =
            [memory EXCEPT
                !.writes = @ + 1,
                !.storage = put(memory_cache, ns, key, memory_item),
                !.written = [tier |-> "long_term", ns |-> ns, key |-> key,
                             value |-> value,
                             overwrite_existing |-> overwrite_existing,
                             before |-> IF existing = Absent THEN Absent
                                        ELSE existing["_value"]]]

\* Lines 287-300: write_memory(memory_type, key, value, namespace, ttl,
\* overwrite_existing).
write_memory(memory_type, key, value, namespace, ttl, overwrite_existing) ==
    /\ memory.writes < MaxWrites
    /\ IF memory_type = "short_term"
       THEN ShortTermMemory_write(key, value, namespace, overwrite_existing)
       ELSE LongTermMemory_write(key, value, namespace, ttl,
                                 overwrite_existing)
    /\ UNCHANGED <<node_run, executor, coordinator_vars, compiler_vars>>

\* A second of wall-clock time passes.
Elapse ==
    /\ memory.now < MaxTime
    /\ memory' = [memory EXCEPT !.now = @ + 1]
    /\ UNCHANGED <<node_run, executor, coordinator_vars, compiler_vars>>

MemoryNext ==
    \/ \E memory_type \in {"short_term", "long_term"}, key \in MemoryKeys,
          value \in MemoryValues, namespace \in NamespaceArgs,
          ttl \in TtlArgs, overwrite_existing \in BOOLEAN :
           write_memory(memory_type, key, value, namespace, ttl,
                        overwrite_existing)
    \/ Elapse

MemorySpec == Init /\ [][MemoryNext]_vars

\* The value a tier holds under the key just written.
Stored ==
    IF memory.written.tier = "short_term"
    THEN lookup(memory.STATE_MEMORY, memory.written.ns, memory.written.key)
    ELSE lookup(memory.storage, memory.written.ns,
                memory.written.key)["_value"]

\* ----------------------------------------------------------------- C26
\* C26: in both tiers a write with overwriteExisting=false onto a key that
\* holds a value merges: list with list is extended, dict with dict has its
\* keys updated, str with str is concatenated, any other combination stores
\* the 2-element list [old, new]; with overwriteExisting=true, or when the
\* key is absent, the stored value is exactly the new value.
C26_WriteMergesOrReplaces ==
    memory.written.tier # "none"
        => LET old == memory.written.before
               new == memory.written.value
           IN  Stored =
                   IF old = Absent \/ memory.written.overwrite_existing
                   THEN new
                   ELSE IF DOMAIN old = {"list"} /\ DOMAIN new = {"list"}
                   THEN ListV(old.list \o new.list)
                   ELSE IF DOMAIN old = {"dict"} /\ DOMAIN new = {"dict"}
                   THEN DictV([k \in DOMAIN old.dict \cup DOMAIN new.dict |->
                                  IF k \in DOMAIN new.dict THEN new.dict[k]
                                  ELSE old.dict[k]])
                   ELSE IF DOMAIN old = {"str"} /\ DOMAIN new = {"str"}
                   THEN StrV(old.str \o new.str)
                   ELSE ListV(<<old, new>>)

\* Each of the four merges has happened in each tier, the dict update
\* keeping a key of the old value and replacing another.
C26_Witness ==
    /\ memory.written.tier = "long_term"
    /\ ~memory.written.overwrite_existing
    /\ memory.written.before = DictV([a |-> 1, b |-> 1])
    /\ memory.written.value = DictV([a |-> 2])
    /\ Stored = DictV([a |-> 2, b |-> 1])


\* ------------------------------------------------------- tool executor
\* One ToolExecutor and the execute calls made on it as coroutines of one
\* event loop.  A call is
\*   pc: "invoke"    about to invoke the tool function (attempt `attempt`)
\*       "calling"   inside self.func(args) on the loop's own thread
\*       "awaiting"  awaiting the run_in_executor future under wait_for
\*       "sleeping"  in asyncio.sleep between two attempts
\*       "returned"  execute returned outcome
\*       "raised"    execute raised outcome
\*   invocations, failed: how often it invoked the tool function, and how
\*       many of its attempts ended in an exception.
\* in_flight counts the invocations of the tool function that have begun
\* and not ended; abandoned those of them whose caller has timed out (the
\* worker thread runs on); blocking is the call that has the loop's thread
\* inside the tool function, 0 if none.
MaxCalls == 2
MaxRetries == 1

\* class ErrorStrategy
ErrorStrategy == {"fail", "ignore", "retry"}

\* Line 118: self.concurrency = max(1, concurrency)
max(a, b) == IF a >= b THEN a ELSE b

\* Line 105: ToolExecutor.__init__.  timeout is whether one is configured.
\* self.executor, the pool of self.concurrency workers (line 122), is
\* created here and used by no method.
ToolExecutor(concurrency, error_handling, max_retries, timeout) ==
    /\ executor = NoExecutor
    /\ executor' = [concurrency |-> max(1, concurrency),
                    error_handling |-> error_handling,
                    max_retries |-> max_retries,
                    timeout |-> timeout,
                    calls |-> << >>,
                    in_flight |-> 0,
                    abandoned |-> 0,
                    blocking |-> 0]
    /\ UNCHANGED <<node_run, memory, coordinator_vars, compiler_vars>>

\* A coroutine executor.execute(args) is created.
execute ==
    /\ executor # NoExecutor
    /\ executor.blocking = 0
    /\ Len(executor.calls) < MaxCalls
    /\ executor' = [executor EXCEPT !.calls =
                       Append(@, [pc |-> "invoke", attempt |-> 0,
                                  invocations |-> 0, failed |-> 0,
                                  outcome |-> "none"])]
    /\ UNCHANGED <<node_run, memory, coordinator_vars, compiler_vars>>

\* Lines 83-86 and 142-149: the tool function is invoked, through
\* execute_with_timeout when a timeout is configured (lines 50-53:
\* run_in_executor(None, ...) hands it to the loop's default pool, which has
\* more workers than there are calls here), else directly.
invoke(c) ==
    /\ executor # NoExecutor
    /\ executor.blocking = 0
    /\ c \in 1..Len(executor.calls)
    /\ executor.calls[c].pc = "invoke"
    /\ executor' = [executor EXCEPT
                       !.calls[c].pc = IF executor.timeout THEN "awaiting"
                                       ELSE "calling",
                       !.calls[c].invocations = @ + 1,
                       !.in_flight = @ + 1,
                       !.blocking = IF executor.timeout THEN 0 ELSE c]
    /\ UNCHANGED <<node_run, memory, coordinator_vars, compiler_vars>>

\* Line 91 with the last attempt retried as well
retries_left_OneMore(attempt, max_retries) == attempt <= max_retries

\* Line 91: if attempt < max_retries
retries_left(attempt, max_retries) == attempt < max_retries

\* Lines 87-100 and 150-156: an attempt of call c ended in an exception.
excepted(call, exception) ==
    CASE executor.error_handling = "retry" ->
             IF retries_left(call.attempt, executor.max_retries)
             THEN [call EXCEPT !.pc = "sleeping", !.failed = @ + 1]
             ELSE [call EXCEPT !.pc = "raised", !.failed = @ + 1,
                               !.outcome = "ToolExecutionError"]
      [] executor.error_handling = "ignore" ->
             [call EXCEPT !.pc = "returned", !.failed = @ + 1,
                          !.outcome = "Tool execution error (ignored)"]
      [] OTHER ->
             [call EXCEPT !.pc = "raised", !.failed = @ + 1,
                          !.outcome = exception]

\* The tool function returns, or raises, in call c.
tool_ends(c, raises) ==
    /\ executor # NoExecutor
    /\ c \in 1..Len(executor.calls)
    /\ executor.calls[c].pc \in {"calling", "awaiting"}
    /\ executor.blocking \in {0, c}
    /\ executor' = [executor EXCEPT
                       !.calls[c] =
                           IF raises THEN excepted(@, "Exception")
                           ELSE [@ EXCEPT !.pc = "returned",
                                          !.outcome = "result"],
                       !.in_flight = @ - 1,
                       !.blocking = 0]
    /\ UNCHANGED <<node_run, memory, coordinator_vars, compiler_vars>>

\* Lines 57-58: wait_for times out.  The worker thread cannot be stopped:
\* the invocation stays in flight.
timeout_expires(c) ==
    /\ executor # NoExecutor
    /\ executor.blocking = 0
    /\ c \in 1..Len(executor.calls)
    /\ executor.calls[c].pc = "awaiting"
    /\ executor' = [executor EXCEPT
                       !.calls[c] = excepted(@, "TimeoutError"),
                       !.abandoned = @ + 1]
    /\ UNCHANGED <<node_run, memory, coordinator_vars, compiler_vars>>

\* An invocation whose caller timed out comes to its end.
abandoned_ends ==
    /\ executor # NoExecutor
    /\ executor.abandoned > 0
    /\ executor' = [executor EXCEPT !.abandoned = @ - 1,
                                    !.in_flight = @ - 1]
    /\ UNCHANGED <<node_run, memory, coordinator_vars, compiler_vars>>

\* Line 95: asyncio.sleep(delay) is over, the loop of line 80 goes round.
retry(c) ==
    /\ executor # NoExecutor
    /\ executor.blocking = 0
    /\ c \in 1..Len(executor.calls)
    /\ executor.calls[c].pc = "sleeping"
    /\ executor' = [executor EXCEPT !.calls[c].pc = "invoke",
                                    !.calls[c].attempt = @ + 1]
    /\ UNCHANGED <<node_run, memory, coordinator_vars, compiler_vars>>

ToolNext ==
    \/ \E concurrency \in 0..2, error_handling \in ErrorStrategy,
          max_retries \in 0..MaxRetries, timeout \in BOOLEAN :
           ToolExecutor(concurrency, error_handling, max_retries, timeout)
    \/ execute
    \/ \E c \in 1..MaxCalls : invoke(c)
    \/ \E c \in 1..MaxCalls, raises \in BOOLEAN : tool_ends(c, raises)
    \/ \E c \in 1..MaxCalls : timeout_expires(c)
    \/ abandoned_ends
    \/ \E c \in 1..MaxCalls : retry(c)

ToolSpec == Init /\ [][ToolNext]_vars

Calls == IF executor = NoExecutor THEN {} ELSE 1..Len(executor.calls)

\* ----------------------------------------------------------------- C27
\* C27: under retry execute invokes the tool at most maxRetries+1 times,
\* returns the result of the first successful attempt without further
\* attempts, and raises ToolExecutionError only after all maxRetries+1
\* attempts have failed; under ignore it never raises and returns an error
\* string; under fail the tool's exception propagates to the caller.
C27_ErrorStrategyHonoured ==
    \A c \in Calls :
        LET call == executor.calls[c]
        IN  /\ call.outcome = "result"
                  => call.pc = "returned" /\ call.invocations = call.failed + 1
            /\ executor.error_handling = "retry"
                  => /\ call.invocations <= executor.max_retries + 1
                     /\ call.pc = "raised"
                           => /\ call.outcome = "ToolExecutionError"
                              /\ call.failed = executor.max_retries + 1
                     /\ call.pc = "returned" => call.outcome = "result"
            /\ executor.error_handling = "ignore"
                  => /\ call.pc # "raised"
                     /\ call.failed > 0
                           => /\ call.pc = "returned"
                              /\ call.outcome = "Tool execution error (ignored)"
            /\ (executor.error_handling = "fail" /\ call.failed > 0)
                  => /\ call.pc = "raised"
                     /\ call.outcome \in {"Exception", "TimeoutError"}

\* A retrying call has used up its attempts, and another has succeeded on
\* a later attempt.
C27_Witness ==
    /\ executor # NoExecutor
    /\ executor.error_handling = "retry"
    /\ executor.max_retries > 0
    /\ \E c, d \in Calls :
           /\ executor.calls[c].outcome = "ToolExecutionError"
           /\ executor.calls[c].invocations = executor.max_retries + 1
           /\ executor.calls[d].outcome = "result"
           /\ executor.calls[d].failed > 0

\* ----------------------------------------------------------------- C28
\* C28: for a ToolExecutor created with concurrency c, at most max(1, c)
\* invocations of its tool function are in flight at any time, however
\* many execute calls are made concurrently.
C28_ConcurrencyBounded ==
    executor # NoExecutor => executor.in_flight <= executor.concurrency


\* ------------------------------------------------------- timeout guard
\* Lines 885-911: handle_timeout(state, on_timeout, default_result,
\* node_id), the dictionary it returns.
handle_timeout(state, on_timeout, default_result) ==
    IF on_timeout = "error"
    THEN update([timeout_expired |-> "True",
                 error |-> "Operation timed out",
                 timeout_state |-> "timeout_state"], state)
    ELSE IF on_timeout = "default"
    THEN update([timeout_expired |-> "True",
                 output |-> default_result,
                 timeout_state |-> "timeout_state"], state)
    ELSE update([timeout_expired |-> "True",
                 abort |-> "True",
                 error |-> "Workflow aborted due to timeout",
                 timeout_state |-> "timeout_state"], state)

\* The graph states handed to handle_timeout: the entries it writes beside.
TimedOutStates ==
    Dicts([output |-> {"", "o"}, error |-> {"e"},
           timeout_expired |-> {"True", "False"}])

\* handle_timeout applied to a state under a policy.
apply_handle_timeout(state, on_timeout, default_result) ==
    /\ node_run = NoRun
    /\ node_run' = [node |-> "handle_timeout",
                    state |-> state,
                    on_timeout |-> on_timeout,
                    default_result |-> default_result,
                    result |-> handle_timeout(state, on_timeout,
                                              default_result)]
    /\ UNCHANGED <<memory, executor, coordinator_vars, compiler_vars>>

HandleTimeoutNext ==
    \E state \in TimedOutStates, on_timeout \in {"error", "default", "abort"},
       default_result \in {"", "d"} :
        apply_handle_timeout(state, on_timeout, default_result)

HandleTimeoutSpec == Init /\ [][HandleTimeoutNext]_vars

MaxTicks == 2

\* The timeout-guard data a client may post, and the graph states a pass
\* is handed.
GuardData ==
    [timeoutMs : {Undefined, Defined(400000)},
     onTimeout : {NoText, Defined("default")},
     defaultResult : {NoText, Defined("d")},
     heartbeatIntervalMs : {Undefined, Defined(300000)}]
GuardStates ==
    Dicts([output |-> {"o"}, timeout_expired |-> {"True", "False"}])

\* No entry of state['timeout_state'] for the node yet.
NoEntry == [start_time |-> -1]

\* Lines 811-822 rendered for a posted timeout-guard node: the constants
\* the template writes into the function.  now is the wall clock in ms.
render_timeoutGuardNode(posted) ==
    /\ node_run = NoRun
    /\ node_run' =
           [node |-> "timeoutGuardNode",
            posted |-> posted,
            timeout_ms |-> default(NodeData(posted).timeoutMs, 60000),
            on_timeout |-> default(NodeData(posted).onTimeout, "error"),
            default_result |-> default(NodeData(posted).defaultResult, ""),
            heartbeat_interval_ms |->
                default(NodeData(posted).heartbeatIntervalMs, 0),
            now |-> 0,
            timeout_state |-> NoEntry,
            ran |-> FALSE,
            elapsed_time |-> 0,
            time_since_heartbeat |-> 0,
            result |-> << >>]
    /\ UNCHANGED <<memory, executor, coordinator_vars, compiler_vars>>

\* Lines 816-882: one pass of an execution through the emitted function.
\* elapsed_time and time_since_heartbeat are what the pass found.
timeoutGuardNode(state) ==
    /\ node_run.node = "timeoutGuardNode"
    /\ LET current_time == node_run.now
           timeout_state ==
               IF node_run.timeout_state = NoEntry
               THEN [start_time |-> current_time,
                     last_heartbeat |-> current_time,
                     timed_out |-> FALSE,
                     operation_completed |-> FALSE]
               ELSE node_run.timeout_state
           elapsed_time == current_time - timeout_state.start_time
           time_since_heartbeat == current_time - timeout_state.last_heartbeat
           pass == [node_run EXCEPT
                       !.ran = TRUE,
                       !.elapsed_time = elapsed_time,
                       !.time_since_heartbeat = time_since_heartbeat,
                       !.timeout_state = timeout_state]
           not_expired == update([timeout_expired |-> "False",
                                  timeout_state |-> "timeout_state"], state)
           expired == handle_timeout(state, node_run.on_timeout,
                                     node_run.default_result)
       IN  IF timeout_state.operation_completed
           THEN node_run' =
                    [pass EXCEPT !.result =
                        update([timeout_expired |-> "False"], state)]
           ELSE IF timeout_state.timed_out
           THEN node_run' = [pass EXCEPT !.result = expired]
           ELSE IF elapsed_time > node_run.timeout_ms
           THEN IF /\ node_run.heartbeat_interval_ms > 0
                   /\ time_since_heartbeat
                          <= node_run.heartbeat_interval_ms * 2
                THEN node_run' =
                         [pass EXCEPT
                             !.timeout_state.start_time =
                                 current_time - (node_run.timeout_ms \div 2),
                             !.result = not_expired]
                ELSE node_run' =
                         [pass EXCEPT !.timeout_state.timed_out = TRUE,
                                      !.result = expired]
           ELSE node_run' =
                    [pass EXCEPT !.timeout_state.operation_completed = TRUE,
                                 !.result = not_expired]
    /\ UNCHANGED <<memory, executor, coordinator_vars, compiler_vars>>

\* TickStep ms of wall-clock time pass between two passes.
GuardTick ==
    /\ node_run.node = "timeoutGuardNode"
    /\ node_run.now < MaxTicks * TickStep
    /\ node_run' = [node_run EXCEPT !.now = @ + TickStep]
    /\ UNCHANGED <<memory, executor, coordinator_vars, compiler_vars>>

TimeoutNext ==
    \/ \E posted \in GuardData : render_timeoutGuardNode(posted)
    \/ \E state \in GuardStates : timeoutGuardNode(state)
    \/ GuardTick

TimeoutSpec == Init /\ [][TimeoutNext]_vars

\* The timeout and heartbeat interval a client configured, the template's
\* defaults when it configured none.
ConfiguredTimeoutMs == default(node_run.posted.timeoutMs, 60000)
ConfiguredHeartbeatMs == default(node_run.posted.heartbeatIntervalMs, 0)
HeartbeatExtends ==
    /\ ConfiguredHeartbeatMs > 0
    /\ node_run.time_since_heartbeat <= ConfiguredHeartbeatMs * 2

\* ----------------------------------------------------------------- C30
\* C30: on every pass the node compares the time elapsed since its
\* recorded start against timeoutMs: a pass with elapsed time greater than
\* timeoutMs and no heartbeat extension reports timeout_expired=true; a
\* pass with elapsed time within timeoutMs, or with a heartbeat observed
\* within twice the heartbeat interval, reports timeout_expired=false.
C30_ElapsedComparedEveryPass ==
    (node_run.node = "timeoutGuardNode" /\ node_run.ran)
        => IF node_run.elapsed_time > ConfiguredTimeoutMs
              /\ ~HeartbeatExtends
           THEN node_run.result["timeout_expired"] = "True"
           ELSE node_run.result["timeout_expired"] = "False"


\* --------------------------------------------------------- retry delay
\* The attempts a delay is calculated for.
MaxAttempts == 4

min(a, b) == IF a <= b THEN a ELSE b

\* 2 ** n
RECURSIVE pow2(_)
pow2(n) == IF n <= 0 THEN 1 ELSE 2 * pow2(n - 1)

\* Lines 793-798 with the exponent one too high
backoff_delay_Doubled(attempt, initial_delay_ms, backoff_type) ==
    IF backoff_type = "constant" THEN initial_delay_ms
    ELSE IF backoff_type = "linear" THEN initial_delay_ms * attempt
    ELSE initial_delay_ms * pow2(attempt)

\* Lines 793-798: the delay before the cap.
backoff_delay(attempt, initial_delay_ms, backoff_type) ==
    IF backoff_type = "constant" THEN initial_delay_ms
    ELSE IF backoff_type = "linear" THEN initial_delay_ms * attempt
    ELSE initial_delay_ms * pow2(attempt - 1)

\* Lines 792-808: calculate_retry_delay.  jitter_factor is what
\* random.uniform(0.8, 1.2) returns, in per cent.
calculate_retry_delay(attempt, initial_delay_ms, max_delay_ms, backoff_type, use_jitter, jitter_factor) ==
    LET delay == min(backoff_delay(attempt, initial_delay_ms, backoff_type),
                     max_delay_ms)
    IN  IF use_jitter THEN (delay * jitter_factor) \div 100 ELSE delay

\* calculate_retry_delay applied to its arguments.
apply_calculate_retry_delay(attempt, initial_delay_ms, max_delay_ms, backoff_type, use_jitter, jitter_factor) ==
    /\ node_run = NoRun
    /\ node_run' = [node |-> "calculate_retry_delay",
                    attempt |-> attempt,
                    initial_delay_ms |-> initial_delay_ms,
                    max_delay_ms |-> max_delay_ms,
                    backoff_type |-> backoff_type,
                    use_jitter |-> use_jitter,
                    jitter_factor |-> jitter_factor,
                    delay |-> calculate_retry_delay(
                                  attempt, initial_delay_ms, max_delay_ms,
                                  backoff_type, use_jitter, jitter_factor)]
    /\ UNCHANGED <<memory, executor, coordinator_vars, compiler_vars>>

DelayNext ==
    \E attempt \in 1..MaxAttempts, initial_delay_ms \in {0, 500, 1000},
       max_delay_ms \in {1200, 30000},
       backoff_type \in {"constant", "linear", "exponential"},
       use_jitter \in BOOLEAN, jitter_factor \in {80, 100, 120} :
        apply_calculate_retry_delay(attempt, initial_delay_ms, max_delay_ms,
                                    backoff_type, use_jitter, jitter_factor)

DelaySpec == Init /\ [][DelayNext]_vars

C38_AttemptsBounded ==
    node_run.node = "errorRetryNode"
        => /\ node_run.attempts <= ConfiguredMaxRetries
           /\ node_run.passes > 0
                 => /\ node_run.attempts =
                          IF error_detected(node_run.state)
                             /\ node_run.before < ConfiguredMaxRetries
                          THEN node_run.before + 1 ELSE node_run.before
                    /\ ~error_detected(node_run.state)
                          => node_run.result["should_retry"] = "False"


\* ------------------------------------------- loop nodes of one program
\* The passes one execution makes through the loop nodes of a program.
MaxLoopPasses == 4

\* Lines 625, 657, 689: the iteration mode the template emits for the data
\* it is handed.
loop_mode(data) ==
    IF data.collectionKey.defined THEN "collection"
    ELSE IF data.condition.defined THEN "condition"
    ELSE "always"

\* Lines 607-611: a loop node's entry of state['loop_state'] as created.
NewLoopEntry == [iterations |-> 0, index |-> 0, complete |-> FALSE]

\* len(collection)
len(collection) ==
    IF isinstance(collection, "list") THEN Len(collection.list)
    ELSE Cardinality(DOMAIN collection.dict)

\* The pairs of loop nodes of a posted schema, the data both are posted
\* with, and what the state holds under the collection key.
LoopNodeIds ==
    {<< <<"a", "-", "1">>, <<"a", "_", "1">> >>, << <<"a", "-", "1">>, <<"b">> >>}
LoopPosted ==
    [maxIterations : {Undefined, Defined(3)},
     collectionKey : {Undefined, Defined(1)},
     condition : {Undefined, Defined(1)}]
Collections ==
    {Absent, IntV(1), ListV(<< >>), ListV(<<1>>), ListV(<<1, 2>>),
     DictV([a |-> 1])}

\* Lines 597-697 rendered for the two loop nodes of a schema, and the state
\* an execution starts with: no loop_state key (601-603).
render_loopNodes(ids, posted, collection) ==
    /\ node_run = NoRun
    /\ node_run' =
          [node |-> "loopNode",
           nodes |-> [k \in 1..2 |->
                        [id |-> ids[k],
                         node_id |-> sanitize(ids[k]),
                         posted |-> posted,
                         mode |-> loop_mode(NodeData(posted)),
                         max_iterations |->
                             default(NodeData(posted).maxIterations, 10)]],
           collection |-> collection,
           loop_state |-> << >>,
           passes |-> 0,
           through |-> 0,
           before |-> << >>,
           decision |-> "none"]
    /\ UNCHANGED <<memory, executor, coordinator_vars, compiler_vars>>

\* Lines 601-697: one pass of the execution through the function emitted
\* for the k-th loop node.  should_continue is what a configured condition
\* returns.
loop_pass(k, should_continue) ==
    /\ node_run.node = "loopNode"
    /\ node_run.passes < MaxLoopPasses
    /\ LET this == node_run.nodes[k]
           node_id == this.node_id
           collection == node_run.collection
           created == IF node_id \in DOMAIN node_run.loop_state
                      THEN node_run.loop_state[node_id] ELSE NewLoopEntry
           counted == [created EXCEPT !.iterations = @ + 1]
           outcome ==
               IF ReachedMaximum(this.max_iterations, created.iterations)
               THEN [entry |-> created, decision |-> "exit"]
               ELSE IF this.mode = "collection"
               THEN IF collection = Absent
                    THEN [entry |-> counted, decision |-> "exit"]
                    ELSE IF \/ ~(isinstance(collection, "list")
                                 \/ isinstance(collection, "dict"))
                            \/ counted.index >= len(collection)
                    THEN [entry |-> [counted EXCEPT !.complete = TRUE],
                          decision |-> "exit"]
                    ELSE IF isinstance(collection, "dict")
                    THEN [entry |-> counted, decision |-> "KeyError"]
                    ELSE [entry |-> [counted EXCEPT !.index = @ + 1],
                          decision |-> "continue"]
               ELSE IF this.mode = "condition" /\ ~should_continue
               THEN [entry |-> [counted EXCEPT !.complete = TRUE],
                     decision |-> "exit"]
               ELSE [entry |-> counted, decision |-> "continue"]
       IN  node_run' =
              [node_run EXCEPT
                  !.loop_state = update(@, [n \in {node_id} |-> outcome.entry]),
                  !.passes = @ + 1,
                  !.through = k,
                  !.before = node_run.loop_state,
                  !.decision = outcome.decision]
    /\ UNCHANGED <<memory, executor, coordinator_vars, compiler_vars>>

LoopStateNext ==
    \/ \E ids \in LoopNodeIds, posted \in LoopPosted,
          collection \in Collections :
            render_loopNodes(ids, posted, collection)
    \/ \E k \in 1..2, should_continue \in BOOLEAN :
            loop_pass(k, should_continue)

LoopStateSpec == Init /\ [][LoopStateNext]_vars

\* The entry a loop node's function works on, before and after the last
\* pass.
EntryBefore(node) ==
    IF node.node_id \in DOMAIN node_run.before
    THEN node_run.before[node.node_id] ELSE NewLoopEntry
EntryAfter(node) ==
    IF node.node_id \in DOMAIN node_run.loop_state
    THEN node_run.loop_state[node.node_id] ELSE NewLoopEntry

\* ----------------------------------------------------------------- C32
\* C32: a loop node configured with a collection key emits
\* decision=continue, advancing its index by exactly one, on each pass
\* where the index is below the collection's length and the iteration cap
\* is not reached, and emits decision=exit once the index has reached the
\* length or when the key is absent or not a sequence.
C32_CollectionMode ==
    (node_run.node = "loopNode" /\ node_run.through > 0
     /\ node_run.nodes[node_run.through].posted.collectionKey.defined)
        => LET this == node_run.nodes[node_run.through]
               entry == EntryBefore(this)
               collection == node_run.collection
               item_left == /\ isinstance(collection, "list")
                            /\ entry.index < Len(collection.list)
                            /\ ~ReachedMaximum(this.max_iterations,
                                               entry.iterations)
           IN  IF item_left
               THEN /\ node_run.decision = "continue"
                    /\ EntryAfter(this).index = entry.index + 1
               ELSE node_run.decision = "exit"

\* ----------------------------------------------------------------- C33
\* C33: a pass through loop node A reads and updates only A's entry of
\* loop_state: the entry {iterations, index, complete} of every other loop
\* node is unchanged, and A's entry accumulates over repeated passes
\* instead of being created anew.
C33_LoopStatePerNode ==
    (node_run.node = "loopNode" /\ node_run.through > 0)
        => LET this == node_run.nodes[node_run.through]
           IN  /\ \A j \in 1..2 :
                     node_run.nodes[j].id # this.id
                        => EntryAfter(node_run.nodes[j])
                               = EntryBefore(node_run.nodes[j])
               /\ EntryAfter(this).iterations >= EntryBefore(this).iterations


\* ------------------------------------------- memory, object by object
\* ShortTermMemory keeps the objects it is handed and extends them in
\* place (lines 74, 83), so this part follows object identity: STATE_MEMORY
\* holds, under a key, a reference to a list object of the caller, an int,
\* or a list the store made itself (line 81).  LongTermMemory keeps what
\* json.dump wrote of the value (line 127).
MaxOps == 3

Ref(object) == [ref |-> object]

\* The list objects the caller holds, and the arguments it passes as value;
\* the namespace arguments ("" is an omitted one).
CallerHeap == [o1 |-> <<IntV(1)>>, o2 |-> <<IntV(2)>>]
ValueArgs == {Ref("o1"), Ref("o2"), IntV(1)}
StoreNamespaceArgs == {"", "A"}
StoreNamespaces == {"default", "A"}

NoStore ==
    [node |-> "memory", ops |-> 0, heap |-> CallerHeap,
     STATE_MEMORY |-> << >>, log |-> << >>, op |-> [kind |-> "none"]]
Store == IF node_run = NoRun THEN NoStore ELSE node_run

\* isinstance(slot, list)
is_list(slot) == DOMAIN slot = {"ref"} \/ DOMAIN slot = {"list"}

\* The value a slot denotes in a heap.
RECURSIVE Deref(_, _)
Deref(heap, slot) ==
    IF DOMAIN slot = {"ref"} THEN ListV(heap[slot.ref])
    ELSE IF DOMAIN slot = {"list"}
    THEN ListV([k \in 1..Len(slot.list) |-> Deref(heap, slot.list[k])])
    ELSE slot

\* del d[ns][key]
removed(store, ns, key) ==
    [store EXCEPT ![ns] = [k \in DOMAIN @ \ {key} |-> @[k]]]

\* Lines 34-52: ShortTermMemory.read(key, namespace).
ShortTermMemory_read(key, namespace) ==
    LET slot == lookup(Store.STATE_MEMORY, ns_of(namespace), key)
    IN  IF slot = Absent THEN Absent ELSE Deref(Store.heap, slot)

\* Lines 137-168: LongTermMemory.read(key, namespace).
LongTermMemory_read(key, namespace) ==
    LET item == lookup(load_memory, ns_of(namespace), key)
    IN  IF item = Absent THEN Absent ELSE item["_value"]

\* Lines 54-83: ShortTermMemory.write on the objects.  The values handed
\* over are list objects and ints, so of the merges lines 73-74 and 79-81
\* apply.
ShortTermMemory_write_object(key, value, namespace, overwrite_existing) ==
    LET ns == ns_of(namespace)
        existing == lookup(Store.STATE_MEMORY, ns, key)
        merge == existing # Absent /\ ~overwrite_existing
        extend == merge /\ is_list(existing) /\ is_list(value)
        items == Store.heap[value.ref]
    IN  node_run' =
            [Store EXCEPT
                !.ops = @ + 1,
                !.op = [kind |-> "write", tier |-> "short_term",
                        ns |-> ns, key |-> key],
                !.heap = IF extend /\ DOMAIN existing = {"ref"}
                         THEN [@ EXCEPT ![existing.ref] = @ \o items]
                         ELSE @,
                !.STATE_MEMORY =
                    IF extend
                    THEN IF DOMAIN existing = {"ref"} THEN @
                         ELSE put(@, ns, key, ListV(existing.list \o items))
                    ELSE IF merge
                    THEN put(@, ns, key, ListV(<<existing, value>>))
                    ELSE put(@, ns, key, value)]

\* Lines 85-95: ShortTermMemory.delete.
ShortTermMemory_delete(key, namespace) ==
    LET ns == ns_of(namespace)
    IN  node_run' =
            [Store EXCEPT
                !.ops = @ + 1,
                !.op = [kind |-> "delete", tier |-> "short_term",
                        ns |-> ns, key |-> key],
                !.STATE_MEMORY =
                    IF lookup(@, ns, key) # Absent
                    THEN removed(@, ns, key) ELSE @]

\* Lines 219-233: LongTermMemory.delete; the file is written only when the
\* key was there.
LongTermMemory_delete(key, namespace) ==
    LET ns == ns_of(namespace)
        memory_cache == load_memory
    IN  /\ memory' = [memory EXCEPT
                         !.storage =
                             IF lookup(memory_cache, ns, key) # Absent
                             THEN removed(memory_cache, ns, key) ELSE @]
        /\ node_run' =
              [Store EXCEPT
                  !.ops = @ + 1,
                  !.op = [kind |-> "delete", tier |-> "long_term",
                          ns |-> ns, key |-> key],
                  !.log = [n \in DOMAIN @ \ {ns} |-> @[n]]]

\* write_memory (287-300) and the two delete methods, called on the
\* module's memory instances (236-237).  log keeps, for the key of each
\* namespace, the last long-term write: its time (when it has a ttl), its
\* ttl and the value it stored.
store_write(memory_type, key, value, namespace, ttl, overwrite_existing) ==
    /\ Store.ops < MaxOps
    /\ IF memory_type = "short_term"
       THEN /\ ShortTermMemory_write_object(key, value, namespace,
                                            overwrite_existing)
            /\ UNCHANGED memory
       ELSE /\ LongTermMemory_write(key, Deref(Store.heap, value), namespace,
                                    ttl, overwrite_existing)
            /\ node_run' =
                  [Store EXCEPT
                      !.ops = @ + 1,
                      !.op = [kind |-> "write", tier |-> "long_term",
                              ns |-> ns_of(namespace), key |-> key],
                      !.log = update(@,
                          [n \in {ns_of(namespace)} |->
                              [at |-> IF ttl = 0 THEN 0 ELSE memory.now,
                               ttl |-> ttl,
                               value |-> lookup(memory'.storage, n,
                                                key)["_value"]]])]
    /\ UNCHANGED <<executor, coordinator_vars, compiler_vars>>

store_delete(memory_type, key, namespace) ==
    /\ Store.ops < MaxOps
    /\ IF memory_type = "short_term"
       THEN ShortTermMemory_delete(key, namespace) /\ UNCHANGED memory
       ELSE LongTermMemory_delete(key, namespace)
    /\ UNCHANGED <<executor, coordinator_vars, compiler_vars>>

StoreNext ==
    \/ \E memory_type \in {"short_term", "long_term"}, key \in MemoryKeys,
          value \in ValueArgs, namespace \in StoreNamespaceArgs,
          ttl \in TtlArgs, overwrite_existing \in BOOLEAN :
           store_write(memory_type, key, value, namespace, ttl,
                       overwrite_existing)
    \/ \E memory_type \in {"short_term", "long_term"}, key \in MemoryKeys,
          namespace \in StoreNamespaceArgs :
           store_delete(memory_type, key, namespace)
    \/ Elapse

StoreSpec == Init /\ [][StoreNext]_vars

\* ----------------------------------------------------------------- C34
\* C34: in both tiers a write or delete of a key in namespace A leaves the
\* value read for every key of every other namespace B as it was, an
\* omitted namespace being the namespace default.
C34_NamespacesPartitioned ==
    [][ Store'.ops = Store.ops + 1
          => \A namespace \in StoreNamespaces, key \in MemoryKeys :
                namespace # Store'.op.ns
                   => /\ ShortTermMemory_read(key, namespace)'
                            = ShortTermMemory_read(key, namespace)
                      /\ LongTermMemory_read(key, namespace)'
                            = LongTermMemory_read(key, namespace) ]_vars

\* ----------------------------------------------------------------- C35
\* C35: long-term memory honours the time-to-live of a key: a value written
\* with ttl is returned by read while less than ttl seconds have elapsed
\* since that write and not returned once more than ttl seconds have
\* elapsed; a value written without ttl is returned until it is overwritten
\* or deleted; the last write to the key decides its expiry.
C35_TtlHonoured ==
    \A namespace \in DOMAIN Store.log :
        LET write == Store.log[namespace]
            elapsed == memory.now - write.at
            returned == LongTermMemory_read("k", namespace)
        IN  IF write.ttl = 0
            THEN returned = write.value
            ELSE /\ elapsed < write.ttl => returned = write.value
                 /\ elapsed > write.ttl => returned = Absent

\* A key written with a ttl of one second has been read back within the
\* second in one namespace and is gone two seconds after its write in the
\* other, where a first write without ttl was replaced by one with.
C35_Witness ==
    /\ DOMAIN Store.log = {"default", "A"}
    /\ Store.log["A"].ttl = 1
    /\ memory.now - Store.log["A"].at = 2
    /\ LongTermMemory_read("k", "A") = Absent
    /\ Store.log["default"].ttl = 1
    /\ memory.now = Store.log["default"].at
    /\ LongTermMemory_read("k", "") = Store.log["default"].value


\* ----------------------------------------------------------------- C36
\* C36: a request leaves the registry only after it has become completed
\* or timed out: while it is pending, get_request finds it and
\* get_pending_requests lists it, also when the wait inside
\* request_intervention ended with an exception.
C36_PendingStaysRegistered ==
    \A i \in Created :
        IsPending(request[i])
            => get_request_found(i) /\ i \in get_pending_requests


\* ----------------------------------------------------------------- C37
\* C37: resume_execution(id, ...) and the timeout of request id change only
\* request id: completed, timed_out and response of every other registered
\* request stay as they are and no other waiter is unblocked; a resume that
\* returns False changes nothing in the registry.
OnlyRequest(id) ==
    /\ paused_executions' = paused_executions
    /\ \A j \in Created \ {id} :
          /\ request'[j] = request[j]
          /\ waiter'[j].pc = waiter[j].pc

C37_OnlyOwnRequestTouched ==
    [][ /\ last'.op = "resume"
           => /\ OnlyRequest(last'.id)
              /\ last'.result = "False"
                    => /\ request' = request
                       /\ paused_executions' = paused_executions
                       /\ waiter' = waiter
        /\ \A i \in Created :
              ( \/ waiter'[i].pc # waiter[i].pc
                   /\ waiter'[i].pc \in {"released", "cancelling"}
                \/ ~request[i].timed_out /\ request'[i].timed_out )
                 => OnlyRequest(i) ]_vars

\* A timeout has marked one request and a resume has then returned True
\* for the other, each leaving the other request as it was.
C37_Witness ==
    /\ last.op = "resume"
    /\ last.result = "True"
    /\ request[last.id].completed
    /\ ~request[last.id].timed_out
    /\ \E j \in paused_executions \ {last.id} :
          request[j].timed_out /\ ~request[j].completed


C40_EveryEdgeWiredOnce ==
    http_response.status_code = 200
        => LET code == http_response.code
               edges == graph_schema.edges
           IN  /\ Len(code.wiring) = Len(edges)
               /\ \A k \in 1..Len(edges) :
                     /\ code.wiring[k].condition.test # "never"
                     /\ code.wiring[k].source = sanitize(edges[k].source)
                     /\ code.wiring[k].target = sanitize(edges[k].target)


=============================================================================
